---- MODULE Spec2Model ----
(***************************************************************************)
(* Model of the resumable DataSync S3 transfer pipeline                    *)
(* (initDataSyncS3Transfer / _execDataSyncS3Transfer) and of the caller's  *)
(* retry loop shown in the readme.                                         *)
(*                                                                         *)
(* One pipeline run is an async function: it is modelled at the            *)
(* granularity of its await points.  pc names the collaborator call that   *)
(* is in flight; each "...Returns" action consumes the response of that    *)
(* call and runs the synchronous code up to the next await or return.      *)
(***************************************************************************)
EXTENDS Integers, Sequences, FiniteSets, TLC

(* ---------------------------------------------------------------------- *)
(* Values                                                                  *)
(* ---------------------------------------------------------------------- *)

\* JavaScript `undefined` (also: a property that is absent from an object).
Undefined == "undefined"

\* The empty string, the other falsy value a string property can hold.
Empty == ""

\* `error: null`
NoError == "null"

\* ARNs the remote services may hand out, or a caller may hold from before.
Arns == {"arn:1", "arn:2"}

\* Values a string property of a response or of prevState can have.
PropertyValues == {Undefined, Empty} \cup Arns

\* Errors thrown by a collaborator call; any call can throw any of them.
CollaboratorErrors == {"NetworkingError", "AccessDeniedException"}

BucketNames == {"source-bucket", "destination-bucket"}

\* The type admits 'source' | 'destination'; JavaScript admits anything.
InitiatingAccounts == {"source", "destination", "other"}

\* Number of times the readme's retry loop is followed (first call included).
MaxAttempts == 3

\* Truthiness of a string-or-undefined value: `if (x)` / `!x`.
Truthy(v) == v # Undefined /\ v # Empty

\* The properties of DataSyncS3TransferOutput, in their documented order.
Fields == <<"dataSyncSrcLocation", "dataSyncDestLocation", "dataSyncTask", "dataSyncTaskExec">>

FieldSet == {Fields[i] : i \in 1..4}

\* `{}`
EmptyState == [f \in FieldSet |-> Undefined]

VARIABLES
    options,        \* the options object closed over by the transfer function
    dataSyncClient, \* the account whose config the DataSync client was built from
    srcBucket,      \* argument of the run
    destBucket,     \* argument of the run
    prevState,      \* argument of the run
    result,         \* the run's accumulator
    error,          \* the error of the returned pair (NoError while running)
    pc,             \* "init", the stage whose call is in flight, or "returned"
    calls,          \* collaborator calls issued by the current run, in order
    skipped,        \* stages the current run skipped because of prevState
    failedStage,    \* stage whose call threw or whose response had no ARN
    attempt,        \* number of calls of transfer() made by the caller
    created,        \* resources created successfully since the first call
    failures,       \* <<stage, error>> of every failed call of transfer()
    responses,      \* what the calls of the current run settled with, in order
    checked         \* last use of checkIncompleteTransfer by the caller

\* The batch driver executeS3DataSyncTransfer, an async generator.
VARIABLES
    transferTasks,  \* its argument: the list of transfers to make
    genState,       \* "idle", "suspendedStart", "running", "suspendedYield", "done"
    itemIndex,      \* position in transferTasks of the item the loop is at
    batchStage,     \* the call of executeSingleS3DataSyncTransfer in flight
    output,         \* the accumulator of executeSingleS3DataSyncTransfer
    results,        \* the array `results`
    yielded,        \* the values the consumer has received, in order
    batchLog,       \* the calls that have settled: item, stage, arguments, response
    requested       \* the number of next() calls the consumer has made

batchVars == <<transferTasks, genState, itemIndex, batchStage, output, results,
               yielded, batchLog, requested>>

\* Several runs of one transfer function, started together (Promise.all).
VARIABLES
    runs,           \* per run: its arguments, its position, its error, its calls and responses
    accumulators    \* the `result` objects the runs write to

concVars == <<runs, accumulators>>

\* Several calls of updateDestBucketPolicy on one bucket.
VARIABLES
    bucketPolicy,   \* the policy text S3 stores for the bucket, << >> when it has none
    policyAtStart,  \* the policy text before the first call
    updaters,       \* per call: its position, the text it read, the text it writes, its error
    putLog          \* the calls whose PutBucketPolicy succeeded, in the order of the writes

policyVars == <<bucketPolicy, policyAtStart, updaters, putLog>>

\* One call of initCopyBucket.
VARIABLES
    resources,      \* the record `resources` the call returns
    copyPc,         \* the step whose call is in flight, "idle" before, "returned" after
    copyCalls,      \* the calls made, in order, with their arguments
    copyResponses,  \* how those calls settled, in order
    copyLogged      \* the error handed to the logger, if any

copyVars == <<resources, copyPc, copyCalls, copyResponses, copyLogged>>

\* Calls of getOrCreateDataSyncRole for one role name, one after another.
VARIABLES
    iamRole,        \* the role of that name in IAM: whether it exists, who made it, its inline policies
    roleRuns,       \* one record per call: where it is, what it returned or threw
    rolePuts,       \* the PutRolePolicy calls in flight
    iamLog          \* the IAM calls that have settled, in order

roleVars == <<iamRole, roleRuns, rolePuts, iamLog>>

\* Calls of getOrCreateLogGroup for one name, one after another.
VARIABLES
    cwLogGroups,    \* the names of the log groups that exist in CloudWatch
    logGroupRuns,   \* one record per call: where it is, what it returned or threw
    cwLog           \* the CloudWatch calls that have settled, in order

logGroupVars == <<cwLogGroups, logGroupRuns, cwLog>>

helperVars == <<roleVars, logGroupVars>>

\* The variables that the actions of one pipeline run leave alone.
nonPipelineVars == <<batchVars, concVars, policyVars, copyVars, helperVars>>

vars == <<options, dataSyncClient, srcBucket, destBucket, prevState, result,
          error, pc, calls, skipped, failedStage, attempt, created, failures,
          responses, checked, nonPipelineVars>>

\* No batch has been asked for.
BatchIdle ==
    /\ transferTasks = << >>
    /\ genState = "idle"
    /\ itemIndex = 0
    /\ batchStage = "none"
    /\ output = EmptyState
    /\ results = << >>
    /\ yielded = << >>
    /\ batchLog = << >>
    /\ requested = 0

\* No concurrent runs have been started.
ConcIdle ==
    /\ runs = << >>
    /\ accumulators = << >>

\* updateDestBucketPolicy is not being exercised.
PolicyIdle ==
    /\ bucketPolicy = << >>
    /\ policyAtStart = << >>
    /\ updaters = << >>
    /\ putLog = << >>

\* `null`
Null == "null"

\* The fields of DataSyncS3TransferResources, in the order of the literal.
ResourceFields ==
    <<"srcAccount", "dataSyncLogGroup", "dataSyncRole", "destBucket",
      "dataSyncSrc", "dataSyncDest", "dataSyncTask", "dataSyncExec">>

ResourceFieldSet == {ResourceFields[i] : i \in 1..8}

\* The literal `resources` starts from.
NullResources == [f \in ResourceFieldSet |-> Null]

\* initCopyBucket is not being exercised.
CopyIdle ==
    /\ resources = NullResources
    /\ copyPc = "idle"
    /\ copyCalls = << >>
    /\ copyResponses = << >>
    /\ copyLogged = NoError

\* getOrCreateDataSyncRole is not being exercised.
RoleIdle ==
    /\ iamRole = [ exists |-> FALSE, createdHere |-> FALSE, policies |-> {} ]
    /\ roleRuns = << >>
    /\ rolePuts = {}
    /\ iamLog = << >>

\* getOrCreateLogGroup is not being exercised.
LogGroupIdle ==
    /\ cwLogGroups = {}
    /\ logGroupRuns = << >>
    /\ cwLog = << >>

HelperIdle == RoleIdle /\ LogGroupIdle

NonPipelineIdle == BatchIdle /\ ConcIdle /\ PolicyIdle /\ CopyIdle /\ HelperIdle

(* ---------------------------------------------------------------------- *)
(* The options object and the clients built by initDataSyncS3Transfer      *)
(* ---------------------------------------------------------------------- *)

TaskName == "Transfer to my other bucket"

OptionsFor(account) ==
    [ initiatingAccount |-> account,
      cloudWatchLogGroup |-> "arn:aws:logs:log-group",
      dataSyncPrincipal |-> "123456789012",
      dataSyncRole |-> "arn:aws:iam::role" ]

\* Variant: new DataSyncClient(initiatingAccount === 'destination' ? destAwsConfig : srcAwsConfig)
DataSyncClientConfigByDestination(opts) ==
    IF opts.initiatingAccount = "destination" THEN "destAwsConfig" ELSE "srcAwsConfig"

\* new DataSyncClient(initiatingAccount === 'source' ? srcAwsConfig : destAwsConfig)
DataSyncClientConfig(opts) ==
    IF opts.initiatingAccount = "source" THEN "srcAwsConfig" ELSE "destAwsConfig"

(* ---------------------------------------------------------------------- *)
(* Stages of one run                                                       *)
(* ---------------------------------------------------------------------- *)

\* Variant: the destination-location block placed before the source-location block.
StageOrderSwapped == <<"dest", "src", "task", "start">>

\* The stages that follow the bucket-policy update, in the order the code
\* runs them.
StageOrder == <<"src", "dest", "task", "start">>

Stages == {"policy"} \cup {StageOrder[i] : i \in 1..4}

\* The stages that create a reusable resource.
CreateStages == {"src", "dest", "task"}

\* Position of a stage in the documented order of the identifiers.
StageNumber(stage) ==
    CASE stage = "policy" -> 0
      [] stage = "src" -> 1
      [] stage = "dest" -> 2
      [] stage = "task" -> 3
      [] stage = "start" -> 4

\* The property of the output that a stage fills in.
StageField(stage) == Fields[StageNumber(stage)]

StageIndex(stage) == CHOOSE i \in 1..4 : StageOrder[i] = stage

\* Variant: `const result = prevState`; the accumulator is the caller's object.
ResultObjectAliased == "prevState"

\* `const result = {}`: the object the run writes to is a new one.
ResultObject == "fresh"

\* Variant: `const result = { ...prevState }`.
InitialResultFromPrev(prev) == prev

\* `const result = {}`
InitialResult(prev) == EmptyState

\* Variant: the destination bucket is updated whichever side initiates.
PolicyTargetAlwaysDest(opts, sb, db) == [bucket |-> db, client |-> "destS3Client"]

\* Which bucket's policy is updated, and through which S3 client.
PolicyTarget(opts, sb, db) ==
    IF opts.initiatingAccount = "source"
    THEN [bucket |-> db, client |-> "destS3Client"]
    ELSE [bucket |-> sb, client |-> "srcS3Client"]

\* Variant: both location stages register the destination bucket.
LocationBucketAlwaysDest(stage, sb, db) == db

\* The bucket a location stage registers.
LocationBucket(stage, sb, db) == IF stage = "src" THEN sb ELSE db

\* `arn:aws:s3:::${bucket}`
BucketArn(bucket) == "arn:aws:s3:::" \o bucket

\* Variant: the destination-location block tests prevState.dataSyncSrcLocation.
SkipStageCopyPaste(prev, stage) ==
    stage # "start"
    /\ Truthy(prev[Fields[IF stage = "dest" THEN 1 ELSE StageNumber(stage)]])

\* Variant: only the two location blocks test prevState.
SkipStageLocationsOnly(prev, stage) ==
    stage \in {"src", "dest"} /\ Truthy(prev[StageField(stage)])

\* `if (prevState.<field>)`: the three creating stages have the check, the
\* task-start stage has none.
SkipStage(prev, stage) ==
    stage # "start" /\ Truthy(prev[StageField(stage)])

\* Variant: `if (response.<Arn> === undefined) throw ...`.
ResponseHasArnNotUndefined(arn) == arn # Undefined

\* `if (!response.<Arn>) throw ...` passes.
ResponseHasArn(arn) == Truthy(arn)

\* The Error thrown when a response carries no ARN.
NotFoundError(stage) ==
    CASE stage \in {"src", "dest"} -> "DataSync location ARN not found."
      [] stage = "task" -> "DataSync task ARN not found."
      [] stage = "start" -> "DataSync task execution ARN not found."

\* The collaborator call a stage issues, with the arguments it passes.
CallOf(stage, res, opts, sb, db) ==
    CASE stage = "policy" ->
            [ op |-> "updateBucketPolicy", stage |-> stage,
              args |-> << PolicyTarget(opts, sb, db).bucket, opts.dataSyncPrincipal,
                          opts.dataSyncRole, PolicyTarget(opts, sb, db).client >> ]
      [] stage \in {"src", "dest"} ->
            [ op |-> "createDataSyncLocation", stage |-> stage,
              args |-> << BucketArn(LocationBucket(stage, sb, db)),
                          opts.dataSyncRole, "dataSyncClient" >> ]
      [] stage = "task" ->
            [ op |-> "createTask", stage |-> stage,
              args |-> << TaskName, res.dataSyncSrcLocation, res.dataSyncDestLocation,
                          opts.cloudWatchLogGroup, "dataSyncClient" >> ]
      [] stage = "start" ->
            [ op |-> "startTask", stage |-> stage,
              args |-> << res.dataSyncTask, "dataSyncClient" >> ]

\* The synchronous code from the i-th stage on, up to the next await:
\* stages with a prior identifier copy it and fall through.
RECURSIVE Proceed(_, _, _)
Proceed(i, res, prev) ==
    LET stage == StageOrder[i] IN
    IF SkipStage(prev, stage)
    THEN LET rest == Proceed(i + 1, [res EXCEPT ![StageField(stage)] = prev[StageField(stage)]], prev)
         IN  [rest EXCEPT !.skipped = @ \cup {stage}]
    ELSE [ pc |-> stage, result |-> res, error |-> NoError,
           failedStage |-> "none", skipped |-> {} ]

\* Variant: a catch block without its return; the run falls through to the
\* next stage.
CatchAndContinue(stage, res, err, prev) ==
    LET n == IF stage = "policy" THEN 0 ELSE StageIndex(stage) IN
    IF n = 4
    THEN [ pc |-> "returned", result |-> res, error |-> NoError,
           failedStage |-> stage, skipped |-> {} ]
    ELSE [Proceed(n + 1, res, prev) EXCEPT !.failedStage = stage]

\* Variant: `catch (error) { return { result, error: null }; }`.
CatchNullError(stage, res, err, prev) ==
    [ pc |-> "returned", result |-> res, error |-> NoError,
      failedStage |-> stage, skipped |-> {} ]

\* Variant: the caught error is replaced by a generic one.
CatchGeneric(stage, res, err, prev) ==
    [ pc |-> "returned", result |-> res, error |-> "Transfer process is incomplete.",
      failedStage |-> stage, skipped |-> {} ]

\* Variant: the catch block issues the call of its stage once more.
CatchRetry(stage, res, err, prev) ==
    [ pc |-> stage, result |-> res, error |-> NoError,
      failedStage |-> "none", skipped |-> {} ]

\* Variant: `catch (error) { throw error; }`; the promise rejects.
CatchRethrow(stage, res, err, prev) ==
    [ pc |-> "rejected", result |-> res, error |-> err,
      failedStage |-> stage, skipped |-> {} ]

\* `catch (error) { return { result, error }; }`
Catch(stage, res, err, prev) ==
    [ pc |-> "returned", result |-> res, error |-> err,
      failedStage |-> stage, skipped |-> {} ]

\* The code that runs when the call of a stage settles.  resp.throws is the
\* error the call rejected with (NoError when it resolved), resp.arn the
\* ARN property of the resolved response.
OnResponse(stage, res, prev, resp) ==
    IF resp.throws # NoError
    THEN Catch(stage, res, resp.throws, prev)
    ELSE IF stage = "policy"
    THEN Proceed(1, res, prev)
    ELSE IF ~ResponseHasArn(resp.arn)
    THEN Catch(stage, res, NotFoundError(stage), prev)
    ELSE LET res2 == [res EXCEPT ![StageField(stage)] = resp.arn] IN
         IF StageIndex(stage) = 4
         THEN [ pc |-> "returned", result |-> res2, error |-> NoError,
                failedStage |-> "none", skipped |-> {} ]
         ELSE Proceed(StageIndex(stage) + 1, res2, prev)

\* What a collaborator call can do: reject, or resolve with a response.
Responses(stage) ==
    [throws : CollaboratorErrors, arn : {Undefined}]
    \cup [throws : {NoError}, arn : IF stage = "policy" THEN {Undefined} ELSE PropertyValues]

(* ---------------------------------------------------------------------- *)
(* checkIncompleteTransfer                                                 *)
(* ---------------------------------------------------------------------- *)

\* The names pushed onto `missing`, in the order of the four tests.
ResourceNames == <<"source location", "destination location", "task", "task execution">>

\* `missing` after the tests of the properties i..4.
RECURSIVE MissingFrom(_, _)
MissingFrom(transferOutput, i) ==
    IF i > 4 THEN << >>
    ELSE IF ~Truthy(transferOutput[Fields[i]])
         THEN << ResourceNames[i] >> \o MissingFrom(transferOutput, i + 1)
         ELSE MissingFrom(transferOutput, i + 1)

\* Variant: the test of dataSyncTaskExec is left out.
RECURSIVE MissingFromWithoutExec(_, _)
MissingFromWithoutExec(transferOutput, i) ==
    IF i > 3 THEN << >>
    ELSE IF ~Truthy(transferOutput[Fields[i]])
         THEN << ResourceNames[i] >> \o MissingFromWithoutExec(transferOutput, i + 1)
         ELSE MissingFromWithoutExec(transferOutput, i + 1)

\* `missing.join(', ')`
RECURSIVE Join(_, _)
Join(seq, sep) ==
    IF Len(seq) = 0 THEN ""
    ELSE IF Len(seq) = 1 THEN seq[1]
    ELSE seq[1] \o sep \o Join(Tail(seq), sep)

\* Variant of Missing.
MissingWithoutExec(transferOutput) == MissingFromWithoutExec(transferOutput, 1)

\* The array `missing` when the four tests are done.
Missing(transferOutput) == MissingFrom(transferOutput, 1)

\* The returned value: NoError for `null`, else the cause of the Error
\* 'Transfer process is incomplete.'.
checkIncompleteTransfer(transferOutput) ==
    IF Len(Missing(transferOutput)) = 0
    THEN NoError
    ELSE "DataSync resources missing: " \o Join(Missing(transferOutput), ", ") \o "."

(* ---------------------------------------------------------------------- *)
(* Initial states                                                          *)
(* ---------------------------------------------------------------------- *)

\* A transfer function has been built; the caller holds any prior state.
Init ==
    /\ options \in {OptionsFor(a) : a \in InitiatingAccounts}
    /\ dataSyncClient = DataSyncClientConfig(options)
    /\ srcBucket \in BucketNames
    /\ destBucket \in BucketNames
    /\ prevState \in [FieldSet -> PropertyValues]
    /\ result = EmptyState
    /\ error = NoError
    /\ pc = "init"
    /\ calls = << >>
    /\ skipped = {}
    /\ failedStage = "none"
    /\ attempt = 0
    /\ created = {}
    /\ failures = {}
    /\ responses = << >>
    /\ checked = [input |-> EmptyState, output |-> "unchecked"]
    /\ NonPipelineIdle

\* The readme's loop: the first call passes no prevState (default `{}`).
InitRetry ==
    /\ Init
    /\ prevState = EmptyState

(* ---------------------------------------------------------------------- *)
(* Actions                                                                 *)
(* ---------------------------------------------------------------------- *)

\* Entry of _execDataSyncS3Transfer with prior state prev: creates the
\* accumulator and issues the bucket-policy update.
Enter(prev) ==
    /\ prevState' = prev
    /\ result' = InitialResult(prev)
    /\ error' = NoError
    /\ pc' = "policy"
    /\ calls' = << CallOf("policy", InitialResult(prev), options, srcBucket, destBucket) >>
    /\ skipped' = {}
    /\ failedStage' = "none"
    /\ attempt' = attempt + 1
    /\ responses' = << >>
    /\ UNCHANGED <<options, dataSyncClient, srcBucket, destBucket, created, failures, checked,
                   nonPipelineVars>>

\* The caller's first call of transfer().
execDataSyncS3Transfer ==
    /\ pc = "init"
    /\ Enter(prevState)

\* The call in flight for a stage settles with resp; the run goes on to its
\* next await or returns.
Settle(stage, resp) ==
    LET out == OnResponse(stage, result, prevState, resp) IN
    /\ result' = out.result
    /\ error' = out.error
    /\ pc' = out.pc
    /\ failedStage' = out.failedStage
    /\ skipped' = skipped \cup out.skipped
    /\ calls' = IF out.pc \in Stages
                THEN Append(calls, CallOf(out.pc, out.result, options, srcBucket, destBucket))
                ELSE calls
    /\ created' = IF stage \in CreateStages /\ out.failedStage = "none"
                  THEN created \cup {stage} ELSE created
    /\ failures' = IF out.pc = "returned" /\ out.error # NoError
                   THEN failures \cup { <<out.failedStage, out.error>> } ELSE failures
    /\ responses' = Append(responses, resp)
    /\ prevState' = IF ResultObject = "prevState" THEN out.result ELSE prevState
    /\ UNCHANGED <<options, dataSyncClient, srcBucket, destBucket, attempt, checked,
                   nonPipelineVars>>

updateBucketPolicyReturns ==
    /\ pc = "policy"
    /\ \E resp \in Responses("policy") : Settle("policy", resp)

createSrcLocationReturns ==
    /\ pc = "src"
    /\ \E resp \in Responses("src") : Settle("src", resp)

createDestLocationReturns ==
    /\ pc = "dest"
    /\ \E resp \in Responses("dest") : Settle("dest", resp)

createTaskReturns ==
    /\ pc = "task"
    /\ \E resp \in Responses("task") : Settle("task", resp)

startTaskReturns ==
    /\ pc = "start"
    /\ \E resp \in Responses("start") : Settle("start", resp)

\* The caller applies checkIncompleteTransfer to the state it holds: the
\* prior state before the call of transfer(), the returned result after it.
checkTransfer ==
    /\ pc \in {"init", "returned"}
    /\ LET held == IF pc = "init" THEN prevState ELSE result IN
       checked' = [input |-> held, output |-> checkIncompleteTransfer(held)]
    /\ UNCHANGED <<options, dataSyncClient, srcBucket, destBucket, prevState, result,
                   error, pc, calls, skipped, failedStage, attempt, created,
                   failures, responses, nonPipelineVars>>

\* `while (transferState.error) transferState = await transfer(..., transferState.result)`
retryTransfer ==
    /\ pc = "returned"
    /\ error # NoError
    /\ attempt < MaxAttempts
    /\ Enter(result)

RunStep ==
    \/ execDataSyncS3Transfer
    \/ updateBucketPolicyReturns
    \/ createSrcLocationReturns
    \/ createDestLocationReturns
    \/ createTaskReturns
    \/ startTaskReturns

\* One call of transfer() with an arbitrary prior state.
Next == RunStep \/ checkTransfer

Spec == Init /\ [][Next]_vars

\* One call of transfer() whose collaborator calls all return: the run's
\* code goes on whenever the call it awaits has settled.
SpecFair == Init /\ [][Next]_vars /\ WF_vars(RunStep)

\* The readme's retry loop, started without a prior state.
NextRetry == RunStep \/ retryTransfer

SpecRetry == InitRetry /\ [][NextRetry]_vars

\* A call resolved with what its stage needs: the policy update resolved,
\* a creation or start call resolved with a populated ARN.
IsSuccess(stage, resp) ==
    /\ resp.throws = NoError
    /\ (stage = "policy" \/ ResponseHasArn(resp.arn))

\* Collaborators that fail only finitely often: from the last attempt the
\* loop is allowed on, every call succeeds.
ReliableResponses(stage, n) ==
    IF n < MaxAttempts
    THEN Responses(stage)
    ELSE {resp \in Responses(stage) : IsSuccess(stage, resp)}

\* The call in flight settles, whichever stage it belongs to.
collaboratorReturns ==
    \E stage \in Stages :
       /\ pc = stage
       /\ \E resp \in ReliableResponses(stage, attempt) : Settle(stage, resp)

NextRetryFair ==
    \/ execDataSyncS3Transfer
    \/ collaboratorReturns
    \/ retryTransfer

\* The readme's retry loop with collaborators that eventually stop failing:
\* every call in flight returns and the loop's code goes on running.
SpecRetryFair == InitRetry /\ [][NextRetryFair]_vars /\ WF_vars(NextRetryFair)

(* ---------------------------------------------------------------------- *)
(* The batch driver: executeS3DataSyncTransfer                             *)
(* ---------------------------------------------------------------------- *)

\* Length of the longest list of transfers handed to the batch driver.
MaxTasks == 3

Digits == <<"1", "2", "3", "4", "5", "6", "7", "8", "9">>

\* The i-th entry of the caller's list of transfers.
TransferTask(i) ==
    [ taskName |-> "Transfer task " \o Digits[i],
      srcBucket |-> "source-bucket-" \o Digits[i],
      destBucket |-> "destination-bucket-" \o Digits[i] ]

\* The options of this revision of the code.
BatchOptions ==
    [ srcCloudWatchLogGroup |-> "arn:aws:logs:log-group",
      srcDataSyncPrincipal |-> "123456789012",
      srcDataSyncRole |-> "arn:aws:iam::role" ]

\* The calls of executeSingleS3DataSyncTransfer, in the order of the code.
BatchStageOrder == <<"bucket", "policy", "src", "dest", "task", "start">>

BatchStages == {BatchStageOrder[i] : i \in 1..6}

BatchStageIndex(stage) == CHOOSE i \in 1..6 : BatchStageOrder[i] = stage

\* The stages whose response carries an ARN that is kept.
ArnStages == {"src", "dest", "task", "start"}

\* The call a stage of executeSingleS3DataSyncTransfer issues.
BatchCallOf(stage, out, task, opts) ==
    CASE stage = "bucket" ->
            [ op |-> "createBucket", args |-> << task.destBucket, "destS3Client" >> ]
      [] stage = "policy" ->
            [ op |-> "updateDestBucketPolicy",
              args |-> << task.destBucket, opts.srcDataSyncPrincipal,
                          opts.srcDataSyncRole, "destS3Client" >> ]
      [] stage = "src" ->
            [ op |-> "createDataSyncLocation",
              args |-> << BucketArn(task.srcBucket), opts.srcDataSyncRole, "srcDataSyncClient" >> ]
      [] stage = "dest" ->
            [ op |-> "createDataSyncLocation",
              args |-> << BucketArn(task.destBucket), opts.srcDataSyncRole, "srcDataSyncClient" >> ]
      [] stage = "task" ->
            [ op |-> "createTask",
              args |-> << task.taskName, out.dataSyncSrcLocation, out.dataSyncDestLocation,
                          opts.srcCloudWatchLogGroup, "srcDataSyncClient" >> ]
      [] stage = "start" ->
            [ op |-> "startTask", args |-> << out.dataSyncTask, "srcDataSyncClient" >> ]

\* The ARN the service hands out for the resource a call creates; the
\* services never hand out the same ARN twice.
ArnFor(i, stage) == "arn:" \o stage \o ":" \o Digits[i]

\* What a call of the batch driver can settle with.
BatchResponses(i, stage) ==
    [throws : {"NetworkingError"}, arn : {Undefined}]
    \cup [throws : {NoError},
          arn : IF stage \in ArnStages THEN {Undefined, ArnFor(i, stage)} ELSE {Undefined}]

\* Variant: `catch (e) { logger.error(..., e); return {}; }`.
BatchCatchEmpty(out, err) ==
    [ finished |-> TRUE, threw |-> FALSE, output |-> EmptyState, logged |-> err, stage |-> "none" ]

\* Variant: `catch (e) { logger.error(..., e); throw e; }`.
BatchCatchRethrow(out, err) ==
    [ finished |-> TRUE, threw |-> TRUE, output |-> out, logged |-> err, stage |-> "none" ]

\* `catch (e) { logger.error(..., e); return output; }`
BatchCatch(out, err) ==
    [ finished |-> TRUE, threw |-> FALSE, output |-> out, logged |-> err, stage |-> "none" ]

\* executeSingleS3DataSyncTransfer from the settling of a call up to its
\* next await or its return.
OnBatchResponse(stage, out, resp) ==
    IF resp.throws # NoError
    THEN BatchCatch(out, resp.throws)
    ELSE IF stage \in ArnStages /\ ~ResponseHasArn(resp.arn)
    THEN BatchCatch(out, NotFoundError(stage))
    ELSE LET out2 == IF stage \in ArnStages
                     THEN [out EXCEPT ![StageField(stage)] = resp.arn] ELSE out
         IN  IF BatchStageIndex(stage) = 6
             THEN [ finished |-> TRUE, threw |-> FALSE, output |-> out2,
                    logged |-> NoError, stage |-> "none" ]
             ELSE [ finished |-> FALSE, threw |-> FALSE, output |-> out2,
                    logged |-> NoError, stage |-> BatchStageOrder[BatchStageIndex(stage) + 1] ]

\* Variant: the loop stops one item early.
HasNextTaskOffByOne(i, tasks) == i < Len(tasks) - 1

\* `for (const task of transferTasks)`: there is an item after the i-th.
HasNextTask(i, tasks) == i < Len(tasks)

\* The pipeline part of the state when only the batch driver is used.
PipelineIdle ==
    /\ options = OptionsFor("source")
    /\ dataSyncClient = DataSyncClientConfig(options)
    /\ srcBucket = "source-bucket"
    /\ destBucket = "destination-bucket"
    /\ prevState = EmptyState
    /\ result = EmptyState
    /\ error = NoError
    /\ pc = "init"
    /\ calls = << >>
    /\ skipped = {}
    /\ failedStage = "none"
    /\ attempt = 0
    /\ created = {}
    /\ failures = {}
    /\ responses = << >>
    /\ checked = [input |-> EmptyState, output |-> "unchecked"]

pipelineVars == <<options, dataSyncClient, srcBucket, destBucket, prevState, result,
                  error, pc, calls, skipped, failedStage, attempt, created, failures,
                  responses, checked>>

\* executeS3DataSyncTransfer has been called with a list of transfers: the
\* generator object exists, its body has not started.
InitBatch ==
    /\ PipelineIdle
    /\ transferTasks \in {[i \in 1..n |-> TransferTask(i)] : n \in 0..MaxTasks}
    /\ genState = "suspendedStart"
    /\ itemIndex = 0
    /\ batchStage = "none"
    /\ output = EmptyState
    /\ results = << >>
    /\ yielded = << >>
    /\ batchLog = << >>
    /\ requested = 0
    /\ ConcIdle
    /\ PolicyIdle
    /\ CopyIdle
    /\ HelperIdle

\* The consumer calls next() on the generator object.  The request is
\* queued; a consumer may ask ahead of the results it has received.
consumerNext ==
    /\ genState # "done"
    /\ requested <= Len(transferTasks)
    /\ requested' = requested + 1
    /\ UNCHANGED <<transferTasks, genState, itemIndex, batchStage, output, results, yielded,
                   batchLog, pipelineVars, concVars, policyVars, copyVars, helperVars>>

\* Variant: the body goes on past its `yield` without a request.
ResumeAllowedEager(asked, resumed) == TRUE

\* A generator suspended at its start or at a `yield` resumes only for a
\* next() request it has not served yet.
ResumeAllowed(asked, resumed) == asked > resumed

\* The body resumes for a pending request: it runs up to its next await,
\* the first call for the next item, or returns when the list is exhausted.
nextResult ==
    /\ genState \in {"suspendedStart", "suspendedYield"}
    /\ ResumeAllowed(requested, itemIndex)
    /\ IF HasNextTask(itemIndex, transferTasks)
       THEN /\ itemIndex' = itemIndex + 1
            /\ output' = EmptyState
            /\ batchStage' = "bucket"
            /\ genState' = "running"
       ELSE /\ genState' = "done"
            /\ UNCHANGED <<itemIndex, output, batchStage>>
    /\ UNCHANGED <<transferTasks, results, yielded, batchLog, requested, pipelineVars, concVars,
                   policyVars, copyVars, helperVars>>

\* The call in flight for the current item settles with resp.
BatchSettle(stage, resp) ==
    LET out == OnBatchResponse(stage, output, resp) IN
    /\ batchLog' = Append(batchLog,
                          [ item |-> itemIndex, stage |-> stage,
                            call |-> BatchCallOf(stage, output, transferTasks[itemIndex], BatchOptions),
                            resp |-> resp, logged |-> out.logged ])
    /\ output' = out.output
    /\ batchStage' = out.stage
    /\ IF out.threw
       THEN /\ genState' = "done"
            /\ UNCHANGED <<results, yielded>>
       ELSE IF out.finished
       THEN /\ results' = Append(results, out.output)
            /\ yielded' = Append(yielded, out.output)
            /\ genState' = "suspendedYield"
       ELSE /\ genState' = "running"
            /\ UNCHANGED <<results, yielded>>
    /\ UNCHANGED <<transferTasks, itemIndex, requested, pipelineVars, concVars, policyVars,
                   copyVars, helperVars>>

batchCreateBucketReturns ==
    /\ genState = "running" /\ batchStage = "bucket"
    /\ \E resp \in BatchResponses(itemIndex, "bucket") : BatchSettle("bucket", resp)

batchUpdateDestBucketPolicyReturns ==
    /\ genState = "running" /\ batchStage = "policy"
    /\ \E resp \in BatchResponses(itemIndex, "policy") : BatchSettle("policy", resp)

batchCreateSrcLocationReturns ==
    /\ genState = "running" /\ batchStage = "src"
    /\ \E resp \in BatchResponses(itemIndex, "src") : BatchSettle("src", resp)

batchCreateDestLocationReturns ==
    /\ genState = "running" /\ batchStage = "dest"
    /\ \E resp \in BatchResponses(itemIndex, "dest") : BatchSettle("dest", resp)

batchCreateTaskReturns ==
    /\ genState = "running" /\ batchStage = "task"
    /\ \E resp \in BatchResponses(itemIndex, "task") : BatchSettle("task", resp)

batchStartTaskReturns ==
    /\ genState = "running" /\ batchStage = "start"
    /\ \E resp \in BatchResponses(itemIndex, "start") : BatchSettle("start", resp)

NextBatch ==
    \/ consumerNext
    \/ nextResult
    \/ batchCreateBucketReturns
    \/ batchUpdateDestBucketPolicyReturns
    \/ batchCreateSrcLocationReturns
    \/ batchCreateDestLocationReturns
    \/ batchCreateTaskReturns
    \/ batchStartTaskReturns

\* The batch driver consumed with `for await`.
SpecBatch == InitBatch /\ [][NextBatch]_vars

(* ---------------------------------------------------------------------- *)
(* Runs of one transfer function started together                          *)
(* ---------------------------------------------------------------------- *)

\* Number of runs started from one initDataSyncS3Transfer call.
NumRuns == 2

\* The buckets of the r-th entry of the readme's `toTransfer`.
RunArgs(r) ==
    [ srcBucket |-> "source-bucket-" \o Digits[r],
      destBucket |-> "destination-bucket-" \o Digits[r] ]

\* The prior states the caller holds for run r: none, or the state a failed
\* earlier run for the same buckets returned.
PriorStatesOf(r) ==
    { EmptyState,
      [EmptyState EXCEPT !["dataSyncSrcLocation"] = "arn:prior-src:" \o Digits[r],
                         !["dataSyncDestLocation"] = "arn:prior-dest:" \o Digits[r]] }

\* What a collaborator call of run r can settle with.
ConcResponses(r, stage) ==
    [throws : {"NetworkingError"}, arn : {Undefined}]
    \cup [throws : {NoError},
          arn : IF stage = "policy" THEN {Undefined} ELSE {ArnFor(r, stage)}]

\* Variant: `result` declared once in initDataSyncS3Transfer, outside the
\* function that runs a transfer.
AccumulatorShared(r) == 1

\* `const result = {}` is a local of _execDataSyncS3Transfer: every
\* invocation allocates its own object.
AccumulatorOf(r) == r

\* The `result` object run r writes to and returns.
ResultOf(r) == accumulators[AccumulatorOf(r)]

InitConcurrent ==
    /\ PipelineIdle
    /\ BatchIdle
    /\ PolicyIdle
    /\ CopyIdle
    /\ HelperIdle
    /\ runs \in { f \in [1..NumRuns -> UNION {{ [ srcBucket |-> RunArgs(r).srcBucket,
                                                  destBucket |-> RunArgs(r).destBucket,
                                                  prevState |-> p, pc |-> "init",
                                                  error |-> NoError, calls |-> << >>,
                                                  responses |-> << >> ]
                                                : p \in PriorStatesOf(r) } : r \in 1..NumRuns}]
                  : \A r \in 1..NumRuns : f[r].srcBucket = RunArgs(r).srcBucket }
    /\ accumulators = [r \in 1..NumRuns |-> EmptyState]

\* transfer(item.from, item.to, item.name) for the r-th item: the run
\* creates its accumulator and issues the bucket-policy update.
startRun ==
    \E r \in DOMAIN runs :
       /\ runs[r].pc = "init"
       /\ accumulators' = [accumulators EXCEPT
                              ![AccumulatorOf(r)] = InitialResult(runs[r].prevState)]
       /\ runs' = [runs EXCEPT ![r] =
                     [@ EXCEPT !.pc = "policy",
                               !.calls = << CallOf("policy", InitialResult(runs[r].prevState),
                                                   options, runs[r].srcBucket, runs[r].destBucket) >>]]
       /\ UNCHANGED <<pipelineVars, batchVars, policyVars, copyVars, helperVars>>

\* The call in flight for run r settles with resp.
ConcSettle(r, stage, resp) ==
    LET out == OnResponse(stage, ResultOf(r), runs[r].prevState, resp) IN
    /\ accumulators' = [accumulators EXCEPT ![AccumulatorOf(r)] = out.result]
    /\ runs' = [runs EXCEPT ![r] =
                  [@ EXCEPT !.pc = out.pc,
                            !.error = out.error,
                            !.responses = Append(@, resp),
                            !.calls = IF out.pc \in Stages
                                      THEN Append(@, CallOf(out.pc, out.result, options,
                                                            runs[r].srcBucket, runs[r].destBucket))
                                      ELSE @]]
    /\ UNCHANGED <<pipelineVars, batchVars, policyVars, copyVars, helperVars>>

concUpdateBucketPolicyReturns ==
    \E r \in DOMAIN runs :
       /\ runs[r].pc = "policy"
       /\ \E resp \in ConcResponses(r, "policy") : ConcSettle(r, "policy", resp)

concCreateSrcLocationReturns ==
    \E r \in DOMAIN runs :
       /\ runs[r].pc = "src"
       /\ \E resp \in ConcResponses(r, "src") : ConcSettle(r, "src", resp)

concCreateDestLocationReturns ==
    \E r \in DOMAIN runs :
       /\ runs[r].pc = "dest"
       /\ \E resp \in ConcResponses(r, "dest") : ConcSettle(r, "dest", resp)

concCreateTaskReturns ==
    \E r \in DOMAIN runs :
       /\ runs[r].pc = "task"
       /\ \E resp \in ConcResponses(r, "task") : ConcSettle(r, "task", resp)

concStartTaskReturns ==
    \E r \in DOMAIN runs :
       /\ runs[r].pc = "start"
       /\ \E resp \in ConcResponses(r, "start") : ConcSettle(r, "start", resp)

NextConcurrent ==
    \/ startRun
    \/ concUpdateBucketPolicyReturns
    \/ concCreateSrcLocationReturns
    \/ concCreateDestLocationReturns
    \/ concCreateTaskReturns
    \/ concStartTaskReturns

\* The readme's Promise.all over the items, with every interleaving of the
\* runs' collaborator calls.
SpecConcurrent == InitConcurrent /\ [][NextConcurrent]_vars

(* ---------------------------------------------------------------------- *)
(* updateDestBucketPolicy                                                  *)
(* ---------------------------------------------------------------------- *)

\* Number of calls of updateDestBucketPolicy made on the bucket.
NumUpdaters == 2

\* The arguments every call is made with: one bucket, one principal, one role.
UpdateArgs ==
    [ bucketName |-> "destination-bucket",
      principal |-> BatchOptions.srcDataSyncPrincipal,
      roleArn |-> BatchOptions.srcDataSyncRole ]

\* JSON.stringify: the text of a policy document.  The text of a document
\* is the one-element sequence holding it; << >> stands for no text (null,
\* undefined, the empty string).
JSONstringify(doc) == << doc >>

\* JSON.parse
JSONparse(text) == text[1]

\* `Policy ? ... : ...`
HasPolicyText(text) == text # << >>

\* First pushed statement: the role's grant on the bucket and its objects.
\* A single string and a one-element list are written alike, as a list.
RoleGrant(bucketName, roleArn) ==
    [ Sid |-> "DataSyncCreateS3LocationAndTaskAccess",
      Effect |-> "Allow",
      Principal |-> [AWS |-> roleArn],
      Action |-> << "s3:GetBucketLocation", "s3:ListBucket", "s3:ListBucketMultipartUploads",
                    "s3:AbortMultipartUpload", "s3:DeleteObject", "s3:GetObject",
                    "s3:ListMultipartUploadParts", "s3:PutObject", "s3:GetObjectTagging",
                    "s3:PutObjectTagging" >>,
      Resource |-> << BucketArn(bucketName), BucketArn(bucketName) \o "/*" >> ]

\* Second pushed statement: the principal's s3:ListBucket grant on the bucket.
PrincipalGrant(bucketName, principal) ==
    [ Sid |-> "DataSyncCreateS3Location",
      Effect |-> "Allow",
      Principal |-> [AWS |-> principal],
      Action |-> << "s3:ListBucket" >>,
      Resource |-> << BucketArn(bucketName) >> ]

\* A statement the bucket's owner had put in the policy beforehand.
ExistingStatement ==
    [ Sid |-> "PublicRead",
      Effect |-> "Allow",
      Principal |-> [AWS |-> "*"],
      Action |-> << "s3:GetObject" >>,
      Resource |-> << BucketArn(UpdateArgs.bucketName) \o "/*" >> ]

\* The policy used when the bucket has none.
DefaultPolicy == [Version |-> "2008-10-17", Statement |-> << >>]

\* Variant: the new policy is built from the default whatever was read.
PolicyToPutOverwrite(Policy, bucketName, principal, roleArn) ==
    JSONstringify([DefaultPolicy EXCEPT !.Statement =
                      << RoleGrant(bucketName, roleArn),
                         PrincipalGrant(bucketName, principal) >>])

\* The code between the read and the write: parse or default, push the two
\* statements, stringify.
PolicyToPut(Policy, bucketName, principal, roleArn) ==
    LET doc == IF HasPolicyText(Policy) THEN JSONparse(Policy) ELSE DefaultPolicy IN
    JSONstringify([doc EXCEPT !.Statement =
                      @ \o << RoleGrant(bucketName, roleArn),
                              PrincipalGrant(bucketName, principal) >>])

\* How GetBucketPolicy can settle when the bucket stores the text `stored`.
GetOutcomes(stored) ==
    (IF stored = << >>
     THEN { [kind |-> "S3ServiceException", name |-> "NoSuchBucketPolicy", Policy |-> << >>] }
     ELSE { [kind |-> "resolved", name |-> "", Policy |-> stored] })
    \cup { [kind |-> "S3ServiceException", name |-> "AccessDenied", Policy |-> << >>],
           [kind |-> "Error", name |-> "NetworkingError", Policy |-> << >>],
           [kind |-> "Error", name |-> "NoSuchBucketPolicy", Policy |-> << >>] }

\* Variant: `catch (e) { }`; every failure of the read is taken for the
\* absence of a policy.
ReadRethrowsNever(o) == FALSE

\* The catch block of the read rethrows.
ReadRethrows(o) ==
    /\ o.kind # "resolved"
    /\ (o.kind # "S3ServiceException" \/ o.name # "NoSuchBucketPolicy")

IdleUpdater ==
    [ pc |-> "idle", Policy |-> << >>, toPut |-> << >>, error |-> NoError, seenPuts |-> 0,
      read |-> [kind |-> "none", name |-> "", Policy |-> << >>],
      storedAtRead |-> << >>, putsAtRead |-> 0 ]

InitPolicy ==
    /\ PipelineIdle
    /\ BatchIdle
    /\ ConcIdle
    /\ CopyIdle
    /\ HelperIdle
    /\ bucketPolicy \in { << >>,
                          JSONstringify([ Version |-> "2012-10-17",
                                          Statement |-> << ExistingStatement >> ]) }
    /\ policyAtStart = bucketPolicy
    /\ updaters = [u \in 1..NumUpdaters |-> IdleUpdater]
    /\ putLog = << >>

\* A call of updateDestBucketPolicy: it sends GetBucketPolicy.
updateDestBucketPolicy ==
    \E u \in DOMAIN updaters :
       /\ updaters[u].pc = "idle"
       /\ updaters' = [updaters EXCEPT ![u] = [@ EXCEPT !.pc = "get", !.seenPuts = Len(putLog)]]
       /\ UNCHANGED <<bucketPolicy, policyAtStart, putLog, pipelineVars, batchVars, concVars, copyVars, helperVars>>

\* GetBucketPolicy settles: the call rejects, or builds the new policy and
\* sends PutBucketPolicy.
getBucketPolicyReturns ==
    \E u \in DOMAIN updaters :
       /\ updaters[u].pc = "get"
       /\ \E o \in GetOutcomes(bucketPolicy) :
             updaters' = [updaters EXCEPT ![u] =
                IF ReadRethrows(o)
                THEN [@ EXCEPT !.pc = "rejected", !.error = o.name, !.read = o,
                               !.storedAtRead = bucketPolicy,
                               !.putsAtRead = Len(putLog)]
                ELSE [@ EXCEPT !.pc = "put",
                               !.read = o,
                               !.storedAtRead = bucketPolicy,
                               !.putsAtRead = Len(putLog),
                               !.Policy = o.Policy,
                               !.toPut = PolicyToPut(o.Policy, UpdateArgs.bucketName,
                                                     UpdateArgs.principal, UpdateArgs.roleArn)]]
       /\ UNCHANGED <<bucketPolicy, policyAtStart, putLog, pipelineVars, batchVars, concVars, copyVars, helperVars>>

\* PutBucketPolicy settles: S3 has replaced the bucket's policy, or the
\* call rejects.
putBucketPolicyReturns ==
    \E u \in DOMAIN updaters :
       /\ updaters[u].pc = "put"
       /\ \/ /\ bucketPolicy' = updaters[u].toPut
             /\ putLog' = Append(putLog, [updater |-> u, text |-> updaters[u].toPut])
             /\ updaters' = [updaters EXCEPT ![u] = [@ EXCEPT !.pc = "done"]]
          \/ /\ updaters' = [updaters EXCEPT ![u] =
                               [@ EXCEPT !.pc = "rejected", !.error = "AccessDenied"]]
             /\ UNCHANGED <<bucketPolicy, putLog>>
       /\ UNCHANGED <<policyAtStart, pipelineVars, batchVars, concVars, copyVars, helperVars>>

NextPolicy ==
    \/ updateDestBucketPolicy
    \/ getBucketPolicyReturns
    \/ putBucketPolicyReturns

\* Calls of updateDestBucketPolicy on one bucket, one after another or
\* overlapping.
SpecPolicy == InitPolicy /\ [][NextPolicy]_vars

(* ---------------------------------------------------------------------- *)
(* initCopyBucket                                                          *)
(* ---------------------------------------------------------------------- *)

\* The arguments of the call.
CopyArgs ==
    [ taskName |-> TaskName,
      source |-> [bucketName |-> "source-bucket", awsConfig |-> "srcAwsConfig"],
      destination |-> [bucketName |-> "destination-bucket", awsConfig |-> "destAwsConfig"],
      role |-> "DataSyncRole",
      logGroup |-> "/aws/datasync" ]

\* The awaited calls of initCopyBucket, in the order of the code.
CopySteps ==
    <<"account", "logGroup", "role", "bucket", "policy", "src", "dest", "task", "exec">>

CopyStepSet == {"account", "logGroup", "role", "bucket", "policy", "src", "dest", "task", "exec"}

CopyStepIndex(step) == CHOOSE i \in 1..9 : CopySteps[i] = step

\* The field of `resources` a step assigns, "none" for the policy update.
CopyField(step) ==
    CASE step = "account" -> "srcAccount"
      [] step = "logGroup" -> "dataSyncLogGroup"
      [] step = "role" -> "dataSyncRole"
      [] step = "bucket" -> "destBucket"
      [] step = "policy" -> "none"
      [] step = "src" -> "dataSyncSrc"
      [] step = "dest" -> "dataSyncDest"
      [] step = "task" -> "dataSyncTask"
      [] step = "exec" -> "dataSyncExec"

\* `${object.property}`
Property(object, name) == object \o "." \o name

\* The call a step makes, with the arguments the code passes; the value a
\* step's `var` holds is the one assigned to its field of `resources`.
CopyCallOf(step, res, args) ==
    CASE step = "account" ->
            [ op |-> "getAwsAccountInfo", step |-> step, args |-> << args.source.awsConfig >> ]
      [] step = "logGroup" ->
            [ op |-> "getOrCreateLogGroup", step |-> step,
              args |-> << args.logGroup, args.source.awsConfig >> ]
      [] step = "role" ->
            [ op |-> "getOrCreateDataSyncRole", step |-> step,
              args |-> << args.role, Property(res.srcAccount, "Account"),
                          args.source.awsConfig >> ]
      [] step = "bucket" ->
            [ op |-> "createBucket", step |-> step,
              args |-> << args.destination.bucketName, "destS3" >> ]
      [] step = "policy" ->
            [ op |-> "updateDestBucketPolicy", step |-> step,
              args |-> << args.destination.bucketName, Property(res.srcAccount, "Arn"),
                          Property(res.dataSyncRole, "Arn"), "destS3" >> ]
      [] step = "src" ->
            [ op |-> "createDataSyncLocation", step |-> step,
              args |-> << BucketArn(args.source.bucketName),
                          Property(res.dataSyncRole, "Arn"), "srcDataSync" >> ]
      [] step = "dest" ->
            [ op |-> "createDataSyncLocation", step |-> step,
              args |-> << BucketArn(args.destination.bucketName),
                          Property(res.dataSyncRole, "Arn"), "srcDataSync" >> ]
      [] step = "task" ->
            [ op |-> "createTask", step |-> step,
              args |-> << args.taskName, Property(res.dataSyncSrc, "LocationArn"),
                          Property(res.dataSyncDest, "LocationArn"),
                          Property(res.dataSyncLogGroup, "arn"), "srcDataSync" >> ]
      [] step = "exec" ->
            [ op |-> "startTask", step |-> step,
              args |-> << Property(res.dataSyncTask, "TaskArn"), "srcDataSync" >> ]

\* The objects a step's call can resolve with: the SDK's output object, the
\* record found or the record created.
CopyObjects(step) == {step \o ":found", step \o ":created"}

\* How the call of a step can settle.
CopyResponses(step) ==
    [throws : {"AccessDeniedException"}, value : {Null}]
    \cup [throws : {NoError}, value : CopyObjects(step)]

\* Variant: a catch block without its `return resources`.
CopyCatchAndContinue(step, res, err) ==
    [ pc |-> IF CopyStepIndex(step) = 9 THEN "returned" ELSE CopySteps[CopyStepIndex(step) + 1],
      resources |-> res, logged |-> err ]

\* `catch (e) { logger.error(..., e); return resources; }`
CopyCatch(step, res, err) ==
    [ pc |-> "returned", resources |-> res, logged |-> err ]

\* initCopyBucket from the settling of a step's call to its next await or
\* its return.
OnCopyResponse(step, res, resp) ==
    IF resp.throws # NoError
    THEN CopyCatch(step, res, resp.throws)
    ELSE [ pc |-> IF CopyStepIndex(step) = 9 THEN "returned"
                  ELSE CopySteps[CopyStepIndex(step) + 1],
           resources |-> IF CopyField(step) = "none" THEN res
                         ELSE [res EXCEPT ![CopyField(step)] = resp.value],
           logged |-> NoError ]

InitCopy ==
    /\ PipelineIdle
    /\ BatchIdle
    /\ ConcIdle
    /\ PolicyIdle
    /\ CopyIdle
    /\ HelperIdle

\* The call of initCopyBucket: it builds `resources` and the clients and
\* makes its first call.
initCopyBucket ==
    /\ copyPc = "idle"
    /\ resources' = NullResources
    /\ copyPc' = CopySteps[1]
    /\ copyCalls' = << CopyCallOf(CopySteps[1], NullResources, CopyArgs) >>
    /\ UNCHANGED <<copyResponses, copyLogged, pipelineVars, batchVars, concVars, policyVars, helperVars>>

\* The call in flight for a step settles with resp.
CopySettle(step, resp) ==
    LET out == OnCopyResponse(step, resources, resp) IN
    /\ resources' = out.resources
    /\ copyPc' = out.pc
    /\ copyLogged' = IF out.logged # NoError THEN out.logged ELSE copyLogged
    /\ copyResponses' = Append(copyResponses, resp)
    /\ copyCalls' = IF out.pc \in CopyStepSet
                    THEN Append(copyCalls, CopyCallOf(out.pc, out.resources, CopyArgs))
                    ELSE copyCalls
    /\ UNCHANGED <<pipelineVars, batchVars, concVars, policyVars, helperVars>>

copyGetAwsAccountInfoReturns ==
    /\ copyPc = "account"
    /\ \E resp \in CopyResponses("account") : CopySettle("account", resp)

copyGetOrCreateLogGroupReturns ==
    /\ copyPc = "logGroup"
    /\ \E resp \in CopyResponses("logGroup") : CopySettle("logGroup", resp)

copyGetOrCreateDataSyncRoleReturns ==
    /\ copyPc = "role"
    /\ \E resp \in CopyResponses("role") : CopySettle("role", resp)

copyCreateBucketReturns ==
    /\ copyPc = "bucket"
    /\ \E resp \in CopyResponses("bucket") : CopySettle("bucket", resp)

copyUpdateDestBucketPolicyReturns ==
    /\ copyPc = "policy"
    /\ \E resp \in CopyResponses("policy") : CopySettle("policy", resp)

copyCreateSrcLocationReturns ==
    /\ copyPc = "src"
    /\ \E resp \in CopyResponses("src") : CopySettle("src", resp)

copyCreateDestLocationReturns ==
    /\ copyPc = "dest"
    /\ \E resp \in CopyResponses("dest") : CopySettle("dest", resp)

copyCreateTaskReturns ==
    /\ copyPc = "task"
    /\ \E resp \in CopyResponses("task") : CopySettle("task", resp)

copyStartTaskReturns ==
    /\ copyPc = "exec"
    /\ \E resp \in CopyResponses("exec") : CopySettle("exec", resp)

NextCopy ==
    \/ initCopyBucket
    \/ copyGetAwsAccountInfoReturns
    \/ copyGetOrCreateLogGroupReturns
    \/ copyGetOrCreateDataSyncRoleReturns
    \/ copyCreateBucketReturns
    \/ copyUpdateDestBucketPolicyReturns
    \/ copyCreateSrcLocationReturns
    \/ copyCreateDestLocationReturns
    \/ copyCreateTaskReturns
    \/ copyStartTaskReturns

\* One call of initCopyBucket.
SpecCopy == InitCopy /\ [][NextCopy]_vars

(* ---------------------------------------------------------------------- *)
(* getOrCreateDataSyncRole: look the role up by name, create it if absent  *)
(* ---------------------------------------------------------------------- *)

\* How many calls of getOrCreateDataSyncRole are made, one after another.
MaxRoleCalls == 3

\* The arguments of every call: one role name, one account.
RoleArgs == [ roleName |-> "datasync-role", accountId |-> "111111111111",
              awsConfig |-> "srcConfig" ]

\* The PolicyName of the two PutRolePolicyCommands.
InlinePolicies == {"SourceBucketPermissions", "DestinationBucketPermissions"}

NoSuchEntityException == "NoSuchEntityException"

\* How GetRole can settle: with the role when it exists, with
\* NoSuchEntityException when it does not, or with another service error.
GetRoleResponses(role) ==
    (IF role.exists
     THEN {[ throws |-> NoError, Role |-> RoleArgs.roleName ]}
     ELSE {[ throws |-> NoSuchEntityException, Role |-> Undefined ]})
    \cup {[ throws |-> "ServiceFailureException", Role |-> Undefined ]}

\* How CreateRole can settle.
CreateRoleResponses(role) ==
    (IF role.exists
     THEN {[ throws |-> "EntityAlreadyExistsException", Role |-> Undefined ]}
     ELSE {[ throws |-> NoError, Role |-> RoleArgs.roleName ]})
    \cup {[ throws |-> "ServiceFailureException", Role |-> Undefined ]}

\* How one PutRolePolicy can settle.
PutRolePolicyResponses ==
    {[ throws |-> NoError ], [ throws |-> "ServiceFailureException" ]}

\* Variant: every failure of the lookup counts as "no such role".
GetIamRoleSwallow(resp) ==
    IF resp.throws # NoError
    THEN [ value |-> Null, throws |-> NoError ]
    ELSE [ value |-> IF resp.Role = Undefined THEN Null ELSE resp.Role, throws |-> NoError ]

\* getIamRole: `null` for NoSuchEntityException, any other error rethrown,
\* `Role ?? null` otherwise.
getIamRole(resp) ==
    IF resp.throws = NoSuchEntityException
    THEN [ value |-> Null, throws |-> NoError ]
    ELSE IF resp.throws # NoError
    THEN [ value |-> Undefined, throws |-> resp.throws ]
    ELSE [ value |-> IF resp.Role = Undefined THEN Null ELSE resp.Role, throws |-> NoError ]

\* createDataSyncIamRole after CreateRole settled: the rejection is passed
\* on, a response without a role is an error, otherwise the two policies
\* are put.
OnCreateRole(resp) ==
    IF resp.throws # NoError
    THEN [ pc |-> "rejected", error |-> resp.throws ]
    ELSE IF resp.Role = Undefined
    THEN [ pc |-> "rejected", error |-> "IAM role for DataSync creation failed." ]
    ELSE [ pc |-> "putPolicies", error |-> NoError ]

\* Promise.all over the two puts: it rejects with the first rejection and
\* fulfils when nothing of it is left in flight.
PromiseAll(stillInFlight, resp) ==
    IF resp.throws # NoError THEN [ pc |-> "rejected", error |-> resp.throws ]
    ELSE IF stillInFlight = {} THEN [ pc |-> "returned", error |-> NoError ]
    ELSE [ pc |-> "putPolicies", error |-> NoError ]

\* The role either does not exist yet or was made by someone else, with or
\* without the inline policies.
InitRole ==
    /\ PipelineIdle
    /\ BatchIdle
    /\ ConcIdle
    /\ PolicyIdle
    /\ CopyIdle
    /\ LogGroupIdle
    /\ iamRole \in {[ exists |-> FALSE, createdHere |-> FALSE, policies |-> {} ],
                    [ exists |-> TRUE, createdHere |-> FALSE, policies |-> {} ],
                    [ exists |-> TRUE, createdHere |-> FALSE, policies |-> InlinePolicies ]}
    /\ roleRuns = << >>
    /\ rolePuts = {}
    /\ iamLog = << >>

RoleUnchangedOthers ==
    UNCHANGED <<pipelineVars, batchVars, concVars, policyVars, copyVars, logGroupVars>>

\* A call of getOrCreateDataSyncRole, once the call before it has settled:
\* it sends GetRole.
getOrCreateDataSyncRole ==
    /\ Len(roleRuns) < MaxRoleCalls
    /\ roleRuns # << >> => roleRuns[Len(roleRuns)].pc \in {"returned", "rejected"}
    /\ roleRuns' = Append(roleRuns, [ pc |-> "getRole", result |-> Undefined, error |-> NoError ])
    /\ UNCHANGED <<iamRole, rolePuts, iamLog>>
    /\ RoleUnchangedOthers

\* GetRole settles: the role found is returned, `null` leads to CreateRole,
\* an error rejects the call.
getRoleReturns ==
    /\ roleRuns # << >>
    /\ roleRuns[Len(roleRuns)].pc = "getRole"
    /\ \E resp \in GetRoleResponses(iamRole) :
          LET c == Len(roleRuns)
              r == getIamRole(resp)
          IN  /\ iamLog' = Append(iamLog, [ call |-> c, op |-> "GetRole", name |-> RoleArgs.roleName,
                                            throws |-> resp.throws ])
              /\ roleRuns' = [roleRuns EXCEPT ![c] =
                     IF r.throws # NoError
                     THEN [ pc |-> "rejected", result |-> Undefined, error |-> r.throws ]
                     ELSE IF r.value # Null
                     THEN [ pc |-> "returned", result |-> r.value, error |-> NoError ]
                     ELSE [ pc |-> "createRole", result |-> Undefined, error |-> NoError ]]
    /\ UNCHANGED <<iamRole, rolePuts>>
    /\ RoleUnchangedOthers

\* CreateRole settles: on success the role exists, without inline
\* policies, and the two PutRolePolicy calls are sent together.
createRoleReturns ==
    /\ roleRuns # << >>
    /\ roleRuns[Len(roleRuns)].pc = "createRole"
    /\ \E resp \in CreateRoleResponses(iamRole) :
          LET c == Len(roleRuns)
              out == OnCreateRole(resp)
          IN  /\ iamLog' = Append(iamLog, [ call |-> c, op |-> "CreateRole", name |-> RoleArgs.roleName,
                                            throws |-> resp.throws ])
              /\ iamRole' = IF resp.throws = NoError
                            THEN [ exists |-> TRUE, createdHere |-> TRUE, policies |-> {} ]
                            ELSE iamRole
              /\ roleRuns' = [roleRuns EXCEPT ![c] =
                                 [ pc |-> out.pc, result |-> Undefined, error |-> out.error ]]
              /\ rolePuts' = IF out.pc = "putPolicies"
                             THEN rolePuts \cup {[ call |-> c, name |-> n ] : n \in InlinePolicies}
                             ELSE rolePuts
    /\ RoleUnchangedOthers

\* One PutRolePolicy settles.  A put that succeeds attaches its policy
\* whether or not the call that sent it has already been rejected.
putRolePolicyReturns ==
    \E p \in rolePuts, resp \in PutRolePolicyResponses :
       LET rest == {q \in rolePuts \ {p} : q.call = p.call}
           out == PromiseAll(rest, resp)
       IN  /\ rolePuts' = rolePuts \ {p}
           /\ iamLog' = Append(iamLog, [ call |-> p.call, op |-> "PutRolePolicy", name |-> p.name,
                                         throws |-> resp.throws ])
           /\ iamRole' = IF resp.throws = NoError
                         THEN [iamRole EXCEPT !.policies = @ \cup {p.name}]
                         ELSE iamRole
           /\ roleRuns' = IF roleRuns[p.call].pc = "putPolicies"
                          THEN [roleRuns EXCEPT ![p.call] =
                                   [ pc |-> out.pc,
                                     result |-> IF out.pc = "returned" THEN RoleArgs.roleName
                                                ELSE Undefined,
                                     error |-> out.error ]]
                          ELSE roleRuns
           /\ RoleUnchangedOthers

NextRole ==
    \/ getOrCreateDataSyncRole
    \/ getRoleReturns
    \/ createRoleReturns
    \/ putRolePolicyReturns

SpecRole == InitRole /\ [][NextRole]_vars

(* ---------------------------------------------------------------------- *)
(* getOrCreateLogGroup: look the log group up by pattern, create if absent *)
(* ---------------------------------------------------------------------- *)

\* How many calls of getOrCreateLogGroup are made, one after another.
MaxLogGroupCalls == 2

\* The default of the parameter logGroupName.
DefaultLogGroupName == "/aws/datasync"

\* getOrCreateLogGroup(awsConfig, logGroupName = '/aws/datasync'): the
\* parameters take the arguments by position, and the default stands in
\* for a missing or undefined second argument.
LogGroupParams(args) ==
    [ awsConfig |-> args[1],
      logGroupName |-> IF Len(args) >= 2 /\ args[2] # Undefined THEN args[2]
                       ELSE DefaultLogGroupName ]

\* The arguments of the calls made here, in the order of the signature.
LogGroupCallArgs == << "srcAwsConfig", "/aws/datasync" >>

\* The log group names the account may hold, in the order DescribeLogGroups
\* lists them, each with its path segments.
LogGroupNames == << "/aws/datasync", "/aws/datasync/tasks", "/aws/lambda" >>

LogGroupNameSet == {LogGroupNames[i] : i \in 1..Len(LogGroupNames)}

Segments(name) ==
    CASE name = "/aws/datasync" -> << "aws", "datasync" >>
      [] name = "/aws/datasync/tasks" -> << "aws", "datasync", "tasks" >>
      [] name = "/aws/lambda" -> << "aws", "lambda" >>
      [] OTHER -> << name >>

\* logGroupNamePattern selects the groups whose name contains the pattern.
MatchesPattern(name, pattern) ==
    LET n == Segments(name)
        p == Segments(pattern)
    IN  \E k \in 0..(Len(n) - Len(p)) : \A i \in 1..Len(p) : n[k + i] = p[i]

\* The log groups of a set, as DescribeLogGroups lists them.
ListOf(S) == SelectSeq(LogGroupNames, LAMBDA n : n \in S)

\* The calls of CreateLogGroup that have succeeded so far.
CreatedHere ==
    {cwLog[n].name : n \in {m \in 1..Len(cwLog) : cwLog[m].op = "CreateLogGroup"
                                                    /\ cwLog[m].throws = NoError}}

\* How DescribeLogGroups can settle: with the matching groups, where a
\* group created a moment ago may not be listed yet, with a response that
\* has no list, or with a service error.
DescribeResponses(groups, pattern) ==
    LET matching == {n \in groups : MatchesPattern(n, pattern)} IN
    {[ throws |-> NoError, hasList |-> TRUE, logGroups |-> ListOf(S) ] :
        S \in {matching, matching \ CreatedHere}}
    \cup {[ throws |-> NoError, hasList |-> FALSE, logGroups |-> << >> ],
          [ throws |-> "ServiceUnavailableException", hasList |-> FALSE, logGroups |-> << >> ]}

\* How CreateLogGroup can settle.
CreateLogGroupResponses(groups, name) ==
    (IF name \in groups
     THEN {[ throws |-> "ResourceAlreadyExistsException" ]}
     ELSE {[ throws |-> NoError ]})
    \cup {[ throws |-> "ServiceUnavailableException" ]}

\* getCloudWatchLogGroup on a fulfilled response: `logGroups?.[0] ?? null`.
getCloudWatchLogGroup(resp) ==
    IF resp.hasList /\ Len(resp.logGroups) >= 1 THEN resp.logGroups[1] ELSE Null

\* Variant: the group looked up after the creation is returned unchecked.
CreateCloudWatchLogGroupUnchecked(newLogGroup) ==
    [ pc |-> "returned", result |-> newLogGroup, error |-> NoError ]

\* createCloudWatchLogGroup after its second lookup: no group is an error.
createCloudWatchLogGroup(newLogGroup) ==
    IF newLogGroup = Null
    THEN [ pc |-> "rejected", result |-> Undefined,
           error |-> "CloudWatch log group for DataSync creation failed." ]
    ELSE [ pc |-> "returned", result |-> newLogGroup, error |-> NoError ]

InitLogGroup ==
    /\ PipelineIdle
    /\ BatchIdle
    /\ ConcIdle
    /\ PolicyIdle
    /\ CopyIdle
    /\ RoleIdle
    /\ cwLogGroups \in SUBSET LogGroupNameSet
    /\ logGroupRuns = << >>
    /\ cwLog = << >>

LogGroupUnchangedOthers ==
    UNCHANGED <<pipelineVars, batchVars, concVars, policyVars, copyVars, roleVars>>

\* An entry of cwLog for the call in flight of run c.
CwEntry(c, op, name, resp) ==
    [ call |-> c, op |-> op, name |-> name, client |-> LogGroupParams(LogGroupCallArgs).awsConfig,
      throws |-> resp.throws, found |-> IF op = "DescribeLogGroups" /\ resp.throws = NoError
                                        THEN getCloudWatchLogGroup(resp) ELSE Null ]

\* A call of getOrCreateLogGroup, once the call before it has settled: it
\* sends DescribeLogGroups.
getOrCreateLogGroup ==
    /\ Len(logGroupRuns) < MaxLogGroupCalls
    /\ logGroupRuns # << >> => logGroupRuns[Len(logGroupRuns)].pc \in {"returned", "rejected"}
    /\ logGroupRuns' = Append(logGroupRuns,
                              [ pc |-> "describe", result |-> Undefined, error |-> NoError ])
    /\ UNCHANGED <<cwLogGroups, cwLog>>
    /\ LogGroupUnchangedOthers

\* The first lookup settles: a group found is returned, none leads to
\* CreateLogGroup, an error rejects the call.
describeLogGroupsReturns ==
    /\ logGroupRuns # << >>
    /\ logGroupRuns[Len(logGroupRuns)].pc = "describe"
    /\ LET c == Len(logGroupRuns)
           name == LogGroupParams(LogGroupCallArgs).logGroupName
       IN  \E resp \in DescribeResponses(cwLogGroups, name) :
              /\ cwLog' = Append(cwLog, CwEntry(c, "DescribeLogGroups", name, resp))
              /\ logGroupRuns' = [logGroupRuns EXCEPT ![c] =
                     IF resp.throws # NoError
                     THEN [ pc |-> "rejected", result |-> Undefined, error |-> resp.throws ]
                     ELSE IF getCloudWatchLogGroup(resp) # Null
                     THEN [ pc |-> "returned", result |-> getCloudWatchLogGroup(resp),
                            error |-> NoError ]
                     ELSE [ pc |-> "create", result |-> Undefined, error |-> NoError ]]
    /\ UNCHANGED cwLogGroups
    /\ LogGroupUnchangedOthers

\* CreateLogGroup settles: on success the group exists and is looked up
\* again.
createLogGroupReturns ==
    /\ logGroupRuns # << >>
    /\ logGroupRuns[Len(logGroupRuns)].pc = "create"
    /\ LET c == Len(logGroupRuns)
           name == LogGroupParams(LogGroupCallArgs).logGroupName
       IN  \E resp \in CreateLogGroupResponses(cwLogGroups, name) :
              /\ cwLog' = Append(cwLog, CwEntry(c, "CreateLogGroup", name, resp))
              /\ cwLogGroups' = IF resp.throws = NoError THEN cwLogGroups \cup {name}
                                ELSE cwLogGroups
              /\ logGroupRuns' = [logGroupRuns EXCEPT ![c] =
                     IF resp.throws # NoError
                     THEN [ pc |-> "rejected", result |-> Undefined, error |-> resp.throws ]
                     ELSE [ pc |-> "describeAgain", result |-> Undefined, error |-> NoError ]]
    /\ LogGroupUnchangedOthers

\* The lookup after the creation settles.
describeAgainReturns ==
    /\ logGroupRuns # << >>
    /\ logGroupRuns[Len(logGroupRuns)].pc = "describeAgain"
    /\ LET c == Len(logGroupRuns)
           name == LogGroupParams(LogGroupCallArgs).logGroupName
       IN  \E resp \in DescribeResponses(cwLogGroups, name) :
              /\ cwLog' = Append(cwLog, CwEntry(c, "DescribeLogGroups", name, resp))
              /\ logGroupRuns' = [logGroupRuns EXCEPT ![c] =
                     IF resp.throws # NoError
                     THEN [ pc |-> "rejected", result |-> Undefined, error |-> resp.throws ]
                     ELSE createCloudWatchLogGroup(getCloudWatchLogGroup(resp))]
    /\ UNCHANGED cwLogGroups
    /\ LogGroupUnchangedOthers

NextLogGroup ==
    \/ getOrCreateLogGroup
    \/ describeLogGroupsReturns
    \/ createLogGroupReturns
    \/ describeAgainReturns

SpecLogGroup == InitLogGroup /\ [][NextLogGroup]_vars

TypeOK ==
    /\ result \in [FieldSet -> PropertyValues]
    /\ prevState \in [FieldSet -> PropertyValues]
    /\ pc \in {"init", "returned"} \cup Stages
    /\ responses \in Seq(UNION {Responses(st) : st \in Stages})
    /\ failedStage \in {"none"} \cup Stages
    /\ skipped \subseteq CreateStages
    /\ created \subseteq CreateStages
    /\ attempt \in 0..(MaxAttempts + 1)

(* ---------------------------------------------------------------------- *)
(* Vocabulary of the properties                                            *)
(* ---------------------------------------------------------------------- *)

Populated(state, i) == Truthy(state[Fields[i]])

\* Number of populated identifiers.
PopulatedCount(state) == Cardinality({i \in 1..4 : Populated(state, i)})

\* The populated identifiers are the first k, for some k.
PrefixContiguous(state) ==
    \A i, j \in 1..4 : (i < j /\ Populated(state, j)) => Populated(state, i)

Complete(state) == \A i \in 1..4 : Populated(state, i)

\* Stages for which the current run has issued a call.
CalledStages == {calls[n].stage : n \in 1..Len(calls)}

(* ---------------------------------------------------------------------- *)
(* C1  Idempotent resume                                                   *)
(* ---------------------------------------------------------------------- *)

\* C1 as stated: with the first k identifiers populated in the prior state,
\* a run makes no call for any of the stages 1..k and, when it succeeds,
\* returns the prior identifier of each of them.
C1_ResumeAsStated ==
    PrefixContiguous(prevState) =>
        /\ \A s \in CalledStages \ {"policy"} : StageNumber(s) > PopulatedCount(prevState)
        /\ (pc = "returned" /\ error = NoError) =>
               \A i \in 1..PopulatedCount(prevState) : result[Fields[i]] = prevState[Fields[i]]

\* C1 (amended): with the first k identifiers populated in the prior state,
\* a run makes no call for the creating stages (source location, destination
\* location, task) among 1..k, which are exactly the stages it skips once the
\* policy update has succeeded; the identifier of every skipped stage equals
\* the prior identifier; the task-start stage is called even when k = 4, and
\* a successful run always has called it.
C1_ResumeSkipsCreatedResources ==
    PrefixContiguous(prevState) =>
        /\ \A s \in CalledStages \cap CreateStages : StageNumber(s) > PopulatedCount(prevState)
        /\ (pc \notin {"init", "policy"} /\ failedStage # "policy") =>
               skipped = {s \in CreateStages : StageNumber(s) <= PopulatedCount(prevState)}
        /\ \A s \in skipped : result[StageField(s)] = prevState[StageField(s)]
        /\ (pc = "returned" /\ error = NoError) => "start" \in CalledStages

\* A run resumed from a state holding both locations has created the task,
\* started it and returned.
C1_Witness ==
    /\ pc = "returned"
    /\ error = NoError
    /\ PrefixContiguous(prevState)
    /\ PopulatedCount(prevState) = 2
    /\ skipped = {"src", "dest"}
    /\ Len(calls) = 3

(* ---------------------------------------------------------------------- *)
(* C2  Reuse across retries                                                *)
(* ---------------------------------------------------------------------- *)

\* C2: in the readme's retry loop, a creation call is never in flight for a
\* resource that an earlier attempt of the loop has created.
C2_ReuseAcrossRetries ==
    pc \in CreateStages => pc \notin created

(* ---------------------------------------------------------------------- *)
(* C3  Strict ordering within one run                                      *)
(* ---------------------------------------------------------------------- *)

\* The stages that must have succeeded, or been skipped with a prior
\* identifier, before a stage is attempted.
RequiredBefore(stage) ==
    CASE stage = "dest" -> {"src"}
      [] stage = "task" -> {"src", "dest"}
      [] stage = "start" -> {"task"}
      [] OTHER -> {}

\* C3: whenever a call of a stage has been issued, every stage it depends on
\* has its identifier populated, having been skipped with a prior identifier
\* or called earlier in the run.
C3_StrictOrdering ==
    \A n \in 1..Len(calls) :
        \A e \in RequiredBefore(calls[n].stage) :
            /\ Truthy(result[StageField(e)])
            /\ \/ e \in skipped
               \/ \E m \in 1..(n - 1) : calls[m].stage = e

\* The task is being created from a prior source location and a freshly
\* created destination location.
C3_Witness ==
    /\ pc = "task"
    /\ skipped = {"src"}
    /\ "dest" \in CalledStages

(* ---------------------------------------------------------------------- *)
(* C4  Halt on failure                                                     *)
(* ---------------------------------------------------------------------- *)

\* C4: when a stage has failed the run has returned, with a non-null error,
\* the failed stage's call is the last one issued, and exactly the
\* identifiers of the stages before the failed one are populated.
C4_HaltOnFailure ==
    failedStage # "none" =>
        /\ pc = "returned"
        /\ error # NoError
        /\ calls[Len(calls)].stage = failedStage
        /\ \A i \in 1..4 : Populated(result, i) <=> i < StageNumber(failedStage)

\* Task creation failed after both locations were set up.
C4_Witness ==
    /\ failedStage = "task"
    /\ pc = "returned"
    /\ Populated(result, 1)
    /\ Populated(result, 2)

(* ---------------------------------------------------------------------- *)
(* C5  What a returned error tells about the failed stage                  *)
(* ---------------------------------------------------------------------- *)

FirstMissing(state) ==
    CHOOSE s \in Stages \ {"policy"} :
        /\ ~Truthy(state[StageField(s)])
        /\ \A i \in 1..(StageNumber(s) - 1) : Populated(state, i)

C6_PolicyTargeting ==
    \A n \in 1..Len(calls) :
        calls[n].op = "updateBucketPolicy" =>
            /\ options.initiatingAccount = "source" =>
                   (calls[n].args[1] = destBucket /\ calls[n].args[4] = "destS3Client")
            /\ options.initiatingAccount = "destination" =>
                   (calls[n].args[1] = srcBucket /\ calls[n].args[4] = "srcS3Client")

\* A destination-initiated run between two different buckets has issued its
\* policy update.
C6_Witness ==
    /\ pc = "policy"
    /\ options.initiatingAccount = "destination"
    /\ srcBucket # destBucket
    /\ Len(calls) = 1

(* ---------------------------------------------------------------------- *)
(* C7  Malformed responses                                                 *)
(* ---------------------------------------------------------------------- *)

NotFoundErrors == {NotFoundError(s) : s \in Stages \ {"policy"}}

\* C7: a response without ARN ends the run with the not-found error of that
\* stage and leaves the stage's identifier unpopulated; no identifier of the
\* accumulator is ever the empty string; createTask and startTask are only
\* called with populated identifiers; a run that returns without error has
\* its task-execution identifier populated.
C7_MalformedResponse ==
    /\ \A f \in FieldSet : result[f] # Empty
    /\ error \in NotFoundErrors =>
           /\ pc = "returned"
           /\ failedStage # "policy"
           /\ error = NotFoundError(failedStage)
           /\ result[StageField(failedStage)] = Undefined
           /\ calls[Len(calls)].stage = failedStage
    /\ \A n \in 1..Len(calls) :
           /\ calls[n].op = "createTask" =>
                  (Truthy(calls[n].args[2]) /\ Truthy(calls[n].args[3]))
           /\ calls[n].op = "startTask" => Truthy(calls[n].args[1])
    /\ (pc = "returned" /\ error = NoError) => Populated(result, 4)

\* createTask resolved without a TaskArn.
C7_Witness ==
    /\ pc = "returned"
    /\ failedStage = "task"
    /\ error = "DataSync task ARN not found."
    /\ result.dataSyncTask = Undefined

(* ---------------------------------------------------------------------- *)
(* C8  Prefix invariant of the returned state                              *)
(* ---------------------------------------------------------------------- *)

\* C8: in every returned state, whatever the prior state, an identifier is
\* populated only if all identifiers of earlier stages are.
C8_ReturnedStateIsPrefix ==
    pc = "returned" => PrefixContiguous(result)

\* A run given only a task identifier failed at the destination location.
C8_Witness ==
    /\ pc = "returned"
    /\ ~PrefixContiguous(prevState)
    /\ Populated(prevState, 3)
    /\ failedStage = "dest"

(* ---------------------------------------------------------------------- *)
(* C9  Outcome dichotomy                                                   *)
(* ---------------------------------------------------------------------- *)

\* C9: a run returns a null error exactly when the returned state is
\* complete; a returned state that comes with an error lacks the
\* task-execution identifier.
C9_OutcomeDichotomy ==
    pc = "returned" =>
        /\ (error = NoError) <=> Complete(result)
        /\ error # NoError => ~Populated(result, 4)

\* A run resumed from a complete state failed to start the task.
C9_Witness ==
    /\ pc = "returned"
    /\ Complete(prevState)
    /\ failedStage = "start"
    /\ error # NoError

(* ---------------------------------------------------------------------- *)
(* C10  Fresh run                                                          *)
(* ---------------------------------------------------------------------- *)

\* C10: a run without prior identifiers in which no stage fails makes
\* exactly five calls, policy update, source location, destination location,
\* task creation from the two locations, task start of the created task, and
\* returns a complete state with a null error.
C10_FreshRun ==
    ( /\ pc = "returned"
      /\ PopulatedCount(prevState) = 0
      /\ failedStage = "none" ) =>
        /\ Len(calls) = 5
        /\ [n \in 1..5 |-> calls[n].op] =
               << "updateBucketPolicy", "createDataSyncLocation",
                  "createDataSyncLocation", "createTask", "startTask" >>
        /\ calls[2].args[1] = BucketArn(srcBucket)
        /\ calls[3].args[1] = BucketArn(destBucket)
        /\ calls[4].args[2] = result.dataSyncSrcLocation
        /\ calls[4].args[3] = result.dataSyncDestLocation
        /\ calls[5].args[1] = result.dataSyncTask
        /\ Complete(result)
        /\ error = NoError

\* A run called without prior state between two different buckets returned
\* without error.
C10_Witness ==
    /\ pc = "returned"
    /\ prevState = EmptyState
    /\ srcBucket # destBucket
    /\ error = NoError
    /\ Len(calls) = 5

(* ---------------------------------------------------------------------- *)
(* C11  Re-invoking with a complete state                                  *)
(* ---------------------------------------------------------------------- *)

\* The operations of the calls issued by the current run, in order.
CallOps == [n \in 1..Len(calls) |-> calls[n].op]

\* C11 as stated: a run given a complete prior state makes exactly one
\* collaborator call, the task start.
C11_OneCallAsStated ==
    (pc = "returned" /\ Complete(prevState)) => CallOps = << "startTask" >>

\* C11 (amended): a run given a complete prior state makes exactly two
\* collaborator calls when its policy update succeeds, the bucket-policy
\* update and then the task start, and only the policy update when that
\* fails; it never calls a location or task creation.
C11_PolicyUpdateThenStart ==
    Complete(prevState) =>
        /\ \A n \in 1..Len(calls) : calls[n].stage \notin CreateStages
        /\ pc = "returned" =>
               CallOps = IF failedStage = "policy"
                         THEN << "updateBucketPolicy" >>
                         ELSE << "updateBucketPolicy", "startTask" >>

\* A run given a complete prior state returned without error.
C11_Witness ==
    /\ pc = "returned"
    /\ Complete(prevState)
    /\ error = NoError
    /\ Len(calls) = 2

(* ---------------------------------------------------------------------- *)
(* C12  Task start is never skipped                                        *)
(* ---------------------------------------------------------------------- *)

\* The prior state holds the two locations and the task.
HoldsAllResources(state) == \A i \in 1..3 : Populated(state, i)

C13_NoInternalRetry ==
    /\ \A n, m \in 1..Len(calls) : calls[n].stage = calls[m].stage => n = m
    /\ \A n \in 1..Len(responses) :
           (responses[n].throws # NoError \/ (n > 1 /\ ~Truthy(responses[n].arn)))
               => (n = Len(calls) /\ pc = "returned")

\* The destination-location call failed and the run returned after three
\* calls.
C13_Witness ==
    /\ pc = "returned"
    /\ failedStage = "dest"
    /\ Len(calls) = 3
    /\ responses[3].throws # NoError

(* ---------------------------------------------------------------------- *)
(* C18  Errors are values                                                  *)
(* ---------------------------------------------------------------------- *)

\* C18: the promise of a run never rejects; when a collaborator call
\* throws, the run resolves with the pair of its accumulator and the thrown
\* error.
C18_ErrorsAreValues ==
    /\ pc # "rejected"
    /\ \A n \in 1..Len(responses) :
           responses[n].throws # NoError =>
               /\ pc = "returned"
               /\ error = responses[n].throws
               /\ result \in [FieldSet -> {Undefined} \cup Arns]

\* createTask threw and the run resolved with both location identifiers.
C18_Witness ==
    /\ pc = "returned"
    /\ Len(responses) = 4
    /\ responses[4].throws = "AccessDeniedException"
    /\ error = "AccessDeniedException"
    /\ Populated(result, 2)

(* ---------------------------------------------------------------------- *)
(* C20  checkIncompleteTransfer                                            *)
(* ---------------------------------------------------------------------- *)

\* The cause expected for a state: the names of its unpopulated resources
\* in the fixed order, separated by commas.
ExpectedCause(state) ==
    LET name(i) == IF Populated(state, i) THEN "" ELSE ResourceNames[i]
        sep(i) == IF ~Populated(state, i) /\ \E j \in (i + 1)..4 : ~Populated(state, j)
                  THEN ", " ELSE ""
    IN  "DataSync resources missing: "
            \o name(1) \o sep(1) \o name(2) \o sep(2) \o name(3) \o sep(3) \o name(4) \o "."

\* C20: checkIncompleteTransfer returns null exactly for the states with all
\* four identifiers populated, and otherwise an Error whose cause lists the
\* unpopulated resources, all of them and no other, in the order source
\* location, destination location, task, task execution; applied to the
\* result of a run it returns null exactly when the run's error is null.
C20_CheckIncompleteTransfer ==
    checked.output # "unchecked" =>
        /\ (checked.output = NoError) <=> Complete(checked.input)
        /\ checked.output # NoError => checked.output = ExpectedCause(checked.input)
        /\ (pc = "returned" /\ checked.input = result) =>
               ((checked.output = NoError) <=> (error = NoError))

\* The check was applied to the result of a run that failed at task
\* creation.
C20_Witness ==
    /\ pc = "returned"
    /\ failedStage = "task"
    /\ checked.input = result
    /\ checked.output = "DataSync resources missing: task, task execution."


(* ---------------------------------------------------------------------- *)
(* Vocabulary of the batch claims                                          *)
(* ---------------------------------------------------------------------- *)

\* The settled calls of item i, in the order they settled.
ItemLog(i) == SelectSeq(batchLog, LAMBDA e : e.item = i)

\* Item i has settled its last call.
ItemFinished(i) == i < itemIndex \/ (i = itemIndex /\ genState # "running")

\* The error item i handed to the logger, NoError when it logged none.
ItemError(i) ==
    IF ItemLog(i) = << >> THEN NoError ELSE ItemLog(i)[Len(ItemLog(i))].logged

\* The outcome of a pipeline run for input task whose calls were answered as
\* the log says: the identifiers of the stages that were answered with an
\* ARN, the others undefined.
ItemOutcome(log) ==
    [ f \in FieldSet |->
        IF \E k \in 1..Len(log) :
              /\ log[k].stage \in ArnStages
              /\ StageField(log[k].stage) = f
              /\ log[k].logged = NoError
        THEN (CHOOSE e \in {log[k] : k \in 1..Len(log)} :
                 e.stage \in ArnStages /\ StageField(e.stage) = f).resp.arn
        ELSE Undefined ]

\* The calls of item i were issued for the i-th input: its name and its
\* buckets, and the stages in the order of the code.
ItemRanForInput(i) ==
    LET log == ItemLog(i) IN
    /\ Len(log) \in 1..6
    /\ \A k \in 1..Len(log) :
          /\ log[k].stage = BatchStageOrder[k]
          /\ (k < Len(log)) => log[k].logged = NoError
    /\ log[1].call.args[1] = transferTasks[i].destBucket
    /\ Len(log) >= 3 => log[3].call.args[1] = BucketArn(transferTasks[i].srcBucket)
    /\ Len(log) >= 4 => log[4].call.args[1] = BucketArn(transferTasks[i].destBucket)
    /\ Len(log) >= 5 => log[5].call.args[1] = transferTasks[i].taskName
    /\ (Len(log) < 6) => log[Len(log)].logged # NoError

(* ---------------------------------------------------------------------- *)
(* C14  Batch driver order and count                                       *)
(* ---------------------------------------------------------------------- *)

\* C14: the batch driver never yields more results than it has started
\* items, the n-th yielded result is the outcome of the pipeline run for the
\* n-th input, and when the generator finishes it has yielded exactly one
\* result per element of transferTasks, in input order, and returns the same
\* list.
C14_OneResultPerInputInOrder ==
    /\ Len(yielded) = Cardinality({i \in 1..Len(transferTasks) : ItemFinished(i)})
    /\ \A n \in 1..Len(yielded) :
          /\ ItemRanForInput(n)
          /\ yielded[n] = ItemOutcome(ItemLog(n))
    /\ genState = "done" =>
          /\ Len(yielded) = Len(transferTasks)
          /\ results = yielded

C14_Witness ==
    /\ genState = "done"
    /\ Len(transferTasks) = 3
    /\ Len(yielded) = 3
    /\ \A n \in 1..3 : Complete(yielded[n])

(* ---------------------------------------------------------------------- *)
(* C15  Batch independence                                                 *)
(* ---------------------------------------------------------------------- *)

\* C15: whichever items fail and at whichever stage, once the generator has
\* finished every item of the batch has been run from its first stage and
\* has yielded the outcome of its own calls; the item after a failed one is
\* started, and a value once yielded is never changed by a later item.
C15_IndependentItems ==
    /\ genState = "done" =>
          \A i \in 1..Len(transferTasks) :
             /\ ItemLog(i) # << >>
             /\ ItemLog(i)[1].stage = "bucket"
             /\ i <= Len(yielded)
             /\ yielded[i] = ItemOutcome(ItemLog(i))
    /\ \A i \in 1..Len(transferTasks) :
          (i < Len(transferTasks) /\ ItemFinished(i) /\ ItemError(i) # NoError
             /\ genState \in {"running", "done"} /\ itemIndex > i)
          => ItemLog(i + 1) # << >> \/ batchStage = "bucket"
    /\ \A i \in 1..Len(yielded) :
          \A f \in FieldSet :
             Truthy(yielded[i][f]) =>
                \E k \in 1..Len(batchLog) :
                   batchLog[k].item = i /\ batchLog[k].resp.arn = yielded[i][f]

C15_Witness ==
    /\ genState = "done"
    /\ Len(transferTasks) = 3
    /\ Len(yielded) = 3
    /\ Complete(yielded[1])
    /\ ItemError(2) # NoError
    /\ ~Complete(yielded[2])
    /\ Complete(yielded[3])

(* ---------------------------------------------------------------------- *)
(* C16  What a yielded result carries                                      *)
(* ---------------------------------------------------------------------- *)

RECURSIVE RunAlone(_, _, _, _)
RunAlone(prev, resps, k, cur) ==
    IF k > Len(resps) THEN cur
    ELSE RunAlone(prev, resps, k + 1, OnResponse(cur.pc, cur.result, prev, resps[k]))

\* C17: with any interleaving of the runs' collaborator calls, the position,
\* the state and the error of every started run are those of the same run
\* executed alone from its own prior state with the responses to its own
\* calls, and its calls name its own buckets and its own identifiers.
C17_RunsAreIndependent ==
    \A r \in DOMAIN runs :
       runs[r].pc # "init" =>
          LET alone == RunAlone(runs[r].prevState, runs[r].responses, 1,
                                [ pc |-> "policy",
                                  result |-> InitialResult(runs[r].prevState),
                                  error |-> NoError ])
          IN  /\ runs[r].pc = alone.pc
              /\ ResultOf(r) = alone.result
              /\ runs[r].error = alone.error
              /\ \A k \in 1..Len(runs[r].calls) :
                    LET c == runs[r].calls[k] IN
                    /\ c.stage = "policy" =>
                          c.args[1] \in {runs[r].srcBucket, runs[r].destBucket}
                    /\ c.stage = "src" => c.args[1] = BucketArn(runs[r].srcBucket)
                    /\ c.stage = "dest" => c.args[1] = BucketArn(runs[r].destBucket)
                    /\ c.stage = "task" =>
                          /\ c.args[2] \in {runs[r].prevState["dataSyncSrcLocation"],
                                            ArnFor(r, "src")}
                          /\ c.args[3] \in {runs[r].prevState["dataSyncDestLocation"],
                                            ArnFor(r, "dest")}
                    /\ c.stage = "start" => c.args[1] = ArnFor(r, "task")

\* Two runs interleaved call by call: one fails at its task creation, the
\* other, resumed from a prior state, completes.
C17_Witness ==
    /\ runs[1].pc = "returned"
    /\ runs[2].pc = "returned"
    /\ runs[1].error = "NetworkingError"
    /\ Len(runs[1].responses) = 4
    /\ runs[2].error = NoError
    /\ Complete(ResultOf(2))
    /\ runs[2].prevState # EmptyState
    /\ ResultOf(1)["dataSyncSrcLocation"] = ArnFor(1, "src")
    /\ ResultOf(2)["dataSyncTask"] = ArnFor(2, "task")


(* ---------------------------------------------------------------------- *)
(* C19  Idempotence of the bucket-policy update                            *)
(* ---------------------------------------------------------------------- *)

\* C19: when updateDestBucketPolicy is applied to a bucket again, with the
\* same principal and role, after an earlier application has completed, the
\* policy it leaves on the bucket equals the policy the earlier application
\* left: the grant statements are not duplicated.
C19_PolicyUpdateIdempotent ==
    \A n \in 2..Len(putLog) :
       updaters[putLog[n].updater].seenPuts = n - 1
          => putLog[n].text = putLog[n - 1].text


(* ---------------------------------------------------------------------- *)
(* C22  The resume token never loses progress                              *)
(* ---------------------------------------------------------------------- *)

\* C22: whatever the stage at which a run fails, the bucket-policy update
\* included, every identifier among source location, destination location
\* and task that was populated in the prior state is populated with the same
\* value in the returned state.
C22_ResumeTokenKeepsProgress ==
    pc = "returned" =>
       \A i \in 1..3 :
          Populated(prevState, i) => result[Fields[i]] = prevState[Fields[i]]


(* ---------------------------------------------------------------------- *)
(* C23  One bucket-policy update per run                                   *)
(* ---------------------------------------------------------------------- *)

\* The S3 client of the account that does not initiate: the DataSync client
\* is built from the initiating account's configuration.
OtherSideClient == IF dataSyncClient = "srcAwsConfig" THEN "destS3Client" ELSE "srcS3Client"

\* The bucket argument of the side that does not initiate.
OtherSideBucket == IF dataSyncClient = "srcAwsConfig" THEN destBucket ELSE srcBucket

\* C23: a run, fresh or resumed, makes exactly one bucket-policy update, as
\* its first call, on the bucket of the side that does not initiate and
\* through that side's S3 client; no other call of the run goes through an
\* S3 client, so the policy of the initiating account's bucket is neither
\* read nor written.
C23_OnePolicyUpdatePerRun ==
    pc # "init" =>
       /\ {n \in 1..Len(calls) : calls[n].op = "updateBucketPolicy"} = {1}
       /\ calls[1].args[1] = OtherSideBucket
       /\ calls[1].args[4] = OtherSideClient
       /\ \A n \in 2..Len(calls) :
             calls[n].args[Len(calls[n].args)] = "dataSyncClient"

\* A resumed run initiated by the destination account has returned after
\* its task-start call.
C23_Witness ==
    /\ pc = "returned"
    /\ HoldsAllResources(prevState)
    /\ options.initiatingAccount = "destination"
    /\ Len(calls) = 2
    /\ calls[1].args[1] = srcBucket
    /\ srcBucket # destBucket


(* ---------------------------------------------------------------------- *)
(* C24  Retry-loop liveness                                                *)
(* ---------------------------------------------------------------------- *)

\* C24: when every collaborator fails only finitely often, the readme's
\* retry loop eventually ends: a run returns a complete state and a null
\* error, and the loop does not call transfer again.
C24_RetryLoopTerminates ==
    <>[](pc = "returned" /\ error = NoError /\ Complete(result))

\* The loop has ended with a complete state after at least one failed
\* attempt.
C24_Witness ==
    /\ pc = "returned"
    /\ error = NoError
    /\ Complete(result)
    /\ attempt >= 2
    /\ failures # {}


(* ---------------------------------------------------------------------- *)
(* C25  Every run terminates                                               *)
(* ---------------------------------------------------------------------- *)

\* TaskStarted: the run returned a null error and a task-execution id.
TaskStarted == pc = "returned" /\ error = NoError /\ Populated(result, 4)

\* Failed(stage): the run returned the error caught at a stage.
Failed == pc = "returned" /\ error # NoError /\ failedStage \in Stages

\* C25: provided each collaborator call returns, a run makes at most five
\* collaborator calls, each for a later stage than the one before, and
\* eventually rests in TaskStarted or in Failed(stage).
C25_RunTerminates ==
    /\ [](/\ Len(calls) <= 5
          /\ Len(responses) <= Len(calls)
          /\ \A m, n \in 1..Len(calls) :
                m < n => StageNumber(calls[m].stage) < StageNumber(calls[n].stage))
    /\ <>[](TaskStarted \/ Failed)

\* A fresh run has reached TaskStarted with its fifth call.
C25_Witness ==
    /\ TaskStarted
    /\ prevState = EmptyState
    /\ Len(calls) = 5
    /\ Len(responses) = 5


(* ---------------------------------------------------------------------- *)
(* C26  Data flow between stages                                           *)
(* ---------------------------------------------------------------------- *)

\* C26: createTask is only called with the source-location and
\* destination-location identifiers recorded in the run's state, both
\* populated; startTask is only called with the task identifier recorded in
\* the run's state, taken from the prior state or from this run's createTask
\* response; and for a prefix-contiguous prior state a returned state with a
\* task id holds the location ids that task was created from: those of the
\* prior state when the task is the prior one, the arguments of this run's
\* createTask call otherwise.
C26_DataFlow ==
    /\ \A n \in 1..Len(calls) :
          /\ calls[n].stage = "task" =>
                /\ calls[n].args[2] = result["dataSyncSrcLocation"]
                /\ calls[n].args[3] = result["dataSyncDestLocation"]
                /\ Truthy(calls[n].args[2])
                /\ Truthy(calls[n].args[3])
          /\ calls[n].stage = "start" =>
                /\ calls[n].args[1] = result["dataSyncTask"]
                /\ Truthy(calls[n].args[1])
                /\ \/ calls[n].args[1] = prevState["dataSyncTask"]
                   \/ /\ n > 1
                      /\ calls[n - 1].stage = "task"
                      /\ calls[n].args[1] = responses[n - 1].arn
    /\ (pc = "returned" /\ PrefixContiguous(prevState) /\ Populated(result, 3)) =>
          IF Populated(prevState, 3)
          THEN \A i \in 1..3 : result[Fields[i]] = prevState[Fields[i]]
          ELSE \E n \in 1..Len(calls) :
                  /\ calls[n].stage = "task"
                  /\ n <= Len(responses)
                  /\ result["dataSyncTask"] = responses[n].arn
                  /\ result["dataSyncSrcLocation"] = calls[n].args[2]
                  /\ result["dataSyncDestLocation"] = calls[n].args[3]

\* A run resumed with a source location only has created the destination
\* location and the task and has started it.
C26_Witness ==
    /\ pc = "returned"
    /\ error = NoError
    /\ Populated(prevState, 1)
    /\ PopulatedCount(prevState) = 1
    /\ \E n \in 1..Len(calls) :
          /\ calls[n].stage = "task"
          /\ calls[n].args[2] = prevState["dataSyncSrcLocation"]
          /\ calls[n].args[3] # prevState["dataSyncSrcLocation"]


(* ---------------------------------------------------------------------- *)
(* C27  Initiator consistency                                              *)
(* ---------------------------------------------------------------------- *)

\* C27: for every value of options.initiatingAccount, the DataSync client
\* is built from the source account's configuration exactly when the run's
\* policy update is made on the destination bucket through the destination
\* S3 client, and from the destination account's configuration exactly when
\* it is made on the source bucket through the source S3 client.
C27_InitiatorConsistency ==
    /\ dataSyncClient \in {"srcAwsConfig", "destAwsConfig"}
    /\ pc # "init" =>
          /\ dataSyncClient = "srcAwsConfig"
                <=> (calls[1].args[1] = destBucket /\ calls[1].args[4] = "destS3Client")
          /\ dataSyncClient = "destAwsConfig"
                <=> (calls[1].args[1] = srcBucket /\ calls[1].args[4] = "srcS3Client")

\* A run whose initiatingAccount is neither 'source' nor 'destination' has
\* made its policy update.
C27_Witness ==
    /\ options.initiatingAccount \notin {"source", "destination"}
    /\ pc = "returned"
    /\ dataSyncClient = "destAwsConfig"
    /\ calls[1].args[4] = "srcS3Client"


(* ---------------------------------------------------------------------- *)
(* C28  A run never mutates its inputs                                     *)
(* ---------------------------------------------------------------------- *)

\* C28: no step of a run, whether the run succeeds or fails, changes the
\* prevState object supplied by the caller or the shared options object, and
\* the object the run returns as `result` is a new one, not prevState.
C28_InputsNotMutated ==
    [][/\ prevState' = prevState
       /\ options' = options
       /\ ResultObject # "prevState"]_vars

\* A resumed run has written identifiers to its result, and one has failed
\* after doing so.
C28_Witness ==
    /\ pc = "returned"
    /\ error # NoError
    /\ Populated(prevState, 1)
    /\ ~Populated(prevState, 2)
    /\ Populated(result, 2)
    /\ result # prevState


(* ---------------------------------------------------------------------- *)
(* C29  updateDestBucketPolicy preserves the existing policy               *)
(* ---------------------------------------------------------------------- *)

\* The statements of a policy text, none when there is no policy.
StatementsOf(text) == IF text = << >> THEN << >> ELSE JSONparse(text).Statement

\* The two statements a call appends.
Grants ==
    << RoleGrant(UpdateArgs.bucketName, UpdateArgs.roleArn),
       PrincipalGrant(UpdateArgs.bucketName, UpdateArgs.principal) >>

\* The policy the bucket had just before the n-th successful write.
PolicyBeforePut(n) == IF n = 1 THEN policyAtStart ELSE putLog[n - 1].text

\* C29: the policy a successful call writes holds the statements of the
\* policy the call read, in the same order, followed by exactly the role
\* grant and the principal's s3:ListBucket grant, and keeps its Version;
\* when the bucket had no policy it holds exactly those two statements.  For
\* a call that no other write overlaps, the policy read is the policy the
\* bucket had before the call.
C29_PolicyPreserved ==
    \A n \in 1..Len(putLog) :
       LET u == putLog[n].updater
           before == updaters[u].Policy
           written == JSONparse(putLog[n].text)
       IN  /\ written.Statement = StatementsOf(before) \o Grants
           /\ before = updaters[u].storedAtRead
           /\ before # << >> => written.Version = JSONparse(before).Version
           /\ before = << >> => written.Statement = Grants
           /\ updaters[u].seenPuts = n - 1 =>
                 written.Statement = StatementsOf(PolicyBeforePut(n)) \o Grants

\* A call has succeeded on a bucket that had a policy with a statement of
\* its owner's.
C29_Witness ==
    /\ Len(putLog) >= 1
    /\ policyAtStart # << >>
    /\ StatementsOf(bucketPolicy) = << ExistingStatement >> \o Grants

(* ---------------------------------------------------------------------- *)
(* C30  Only NoSuchBucketPolicy means "no policy"                          *)
(* ---------------------------------------------------------------------- *)

\* C30: a call goes on to build a policy from the default only when its read
\* failed with an S3 service error named NoSuchBucketPolicy; when the read
\* fails in any other way the call rejects with that error and sends no
\* PutBucketPolicy, so no write ever drops statements the bucket had when
\* the call read it.
C30_OnlyNoSuchBucketPolicyMeansNone ==
    /\ \A u \in DOMAIN updaters :
          LET r == updaters[u].read IN
          /\ (updaters[u].pc \in {"put", "done"} \/ updaters[u].toPut # << >>) =>
                \/ r.kind = "resolved"
                \/ (r.kind = "S3ServiceException" /\ r.name = "NoSuchBucketPolicy")
          /\ (r.kind \in {"S3ServiceException", "Error"}
                /\ ~(r.kind = "S3ServiceException" /\ r.name = "NoSuchBucketPolicy")) =>
                /\ updaters[u].pc = "rejected"
                /\ updaters[u].error = r.name
                /\ updaters[u].toPut = << >>
                /\ \A n \in 1..Len(putLog) : putLog[n].updater # u
    /\ \A n \in 1..Len(putLog) :
          LET had == StatementsOf(updaters[putLog[n].updater].storedAtRead) IN
          SubSeq(StatementsOf(putLog[n].text), 1, Len(had)) = had

\* On a bucket with a policy, one call's read was refused and the call
\* rejected, another's read failed with a non-S3 error of the same name,
\* and the policy is as it was.
C30_Witness ==
    /\ policyAtStart # << >>
    /\ bucketPolicy = policyAtStart
    /\ \E u, v \in DOMAIN updaters :
          /\ updaters[u].pc = "rejected"
          /\ updaters[u].read.kind = "S3ServiceException"
          /\ updaters[u].read.name = "AccessDenied"
          /\ updaters[v].pc = "rejected"
          /\ updaters[v].read.kind = "Error"
          /\ updaters[v].read.name = "NoSuchBucketPolicy"


(* ---------------------------------------------------------------------- *)
(* C21  initCopyBucket resource record                                     *)
(* ---------------------------------------------------------------------- *)

\* C21: the calls of initCopyBucket are made in the order account info, log
\* group, IAM role, destination bucket, policy update, source location,
\* destination location, task, task execution; when a step's call fails the
\* call returns at once, the step's field and every later field stay null
\* and no later call is made; the fields of steps that succeeded hold what
\* their calls resolved with, so the non-null fields of the record always
\* form a prefix of that order.
C21_ResourceRecordIsPrefix ==
    LET order == <<"account", "logGroup", "role", "bucket", "policy",
                   "src", "dest", "task", "exec">>
    IN
        /\ Len(copyCalls) <= 9
        /\ \A n \in 1..Len(copyCalls) : copyCalls[n].step = order[n]
        /\ \A i, j \in 1..8 :
              (i < j /\ resources[ResourceFields[j]] # Null)
                 => resources[ResourceFields[i]] # Null
        /\ \A n \in 1..Len(copyResponses) :
              LET f == CopyField(copyCalls[n].step) IN
              IF copyResponses[n].throws # NoError
              THEN /\ n = Len(copyCalls)
                   /\ copyPc = "returned"
                   /\ copyLogged = copyResponses[n].throws
                   /\ \A m \in n..9 :
                         CopyField(order[m]) # "none"
                            => resources[CopyField(order[m])] = Null
              ELSE f # "none" => resources[f] = copyResponses[n].value
        /\ (copyPc = "returned" /\ copyLogged = NoError) =>
              \A i \in 1..8 : resources[ResourceFields[i]] # Null

\* The policy update has failed: the four fields before it are set, the
\* four after it are null.
C21_Witness ==
    /\ copyPc = "returned"
    /\ Len(copyCalls) = 5
    /\ copyLogged # NoError
    /\ resources["destBucket"] # Null
    /\ resources["dataSyncSrc"] = Null


(* ---------------------------------------------------------------------- *)
(* C31  Policy updates under concurrency                                   *)
(* ---------------------------------------------------------------------- *)

\* The grants appended by k calls, one after the other.
RECURSIVE GrantsOf(_)
GrantsOf(k) == IF k = 0 THEN << >> ELSE GrantsOf(k - 1) \o Grants

\* The number of updates whose grants the n-th write holds: its own, and
\* those held by the write its call had read.
RECURSIVE SurvivingUpdates(_)
SurvivingUpdates(n) ==
    IF n = 0 THEN 0
    ELSE 1 + SurvivingUpdates(updaters[putLog[n].updater].putsAtRead)

\* C31 as stated: once the concurrent updates of one bucket have all
\* completed, the bucket policy holds the grant statements appended by each
\* of them, whatever the interleaving of their reads and writes.
C31_NoLostUpdate ==
    (\A u \in DOMAIN updaters : updaters[u].pc = "done") =>
       StatementsOf(bucketPolicy) = StatementsOf(policyAtStart) \o GrantsOf(Len(putLog))

\* C31: the policy update is a read-modify-write without a guard, so the
\* last writer wins.  The policy on the bucket is the text of the latest
\* write; a write holds the statements the bucket started with, the grants
\* of the updates its call had read and its own, so an update written
\* between another call's read and write is lost, and no update is lost
\* when every call reads after the write before it.
C31_LastWriterWins ==
    /\ bucketPolicy = IF putLog = << >> THEN policyAtStart ELSE putLog[Len(putLog)].text
    /\ \A n \in 1..Len(putLog) :
          /\ updaters[putLog[n].updater].putsAtRead < n
          /\ StatementsOf(putLog[n].text) =
                StatementsOf(policyAtStart) \o GrantsOf(SurvivingUpdates(n))
          /\ (\A m \in 1..n : updaters[putLog[m].updater].putsAtRead = m - 1)
                => SurvivingUpdates(n) = n

\* Two calls have read the policy before either wrote: both have completed
\* and the policy holds the grants of one.
C31_Witness ==
    /\ \A u \in DOMAIN updaters : updaters[u].pc = "done"
    /\ Len(putLog) >= 2
    /\ policyAtStart # << >>
    /\ StatementsOf(bucketPolicy) = << ExistingStatement >> \o Grants


\* ---------------------------------------------------------------------
\* C32  Batch driver laziness and sequencing: executeS3DataSyncTransfer
\* makes no collaborator call for item i+1 before the pipeline of item i has
\* finished, its result has been yielded and the consumer has requested the
\* next result; at no time are two items' pipelines in flight together.
\* An item has started once a call of its pipeline has settled or is in
\* flight.
ItemStarted(i) ==
    \/ ItemLog(i) # << >>
    \/ genState = "running" /\ itemIndex = i

C32_LazyAndSequential ==
    /\ \A i \in 1..Len(transferTasks) :
          ItemStarted(i) =>
             /\ requested >= i
             /\ \A j \in 1..(i - 1) : ItemFinished(j) /\ Len(yielded) >= j
    /\ \A m, n \in 1..Len(batchLog) : m < n => batchLog[m].item <= batchLog[n].item
    /\ genState = "running" =>
          /\ batchStage \in BatchStages
          /\ Len(yielded) = itemIndex - 1
          /\ \A n \in 1..Len(batchLog) : batchLog[n].item <= itemIndex
    /\ genState # "running" => batchStage = "none"

\* The consumer has asked for every result ahead of time; item 1 has been
\* yielded, item 2 is in flight, and item 3 has made no call.
C32_Witness ==
    /\ Len(transferTasks) = 3
    /\ requested >= 3
    /\ genState = "running"
    /\ itemIndex = 2
    /\ Len(yielded) = 1
    /\ ~ItemStarted(3)


\* ---------------------------------------------------------------------
\* The IAM calls of the c-th call of getOrCreateDataSyncRole that have
\* settled, in order.
RoleLog(c) == SelectSeq(iamLog, LAMBDA e : e.call = c)

\* The c-th call has sent an operation of the given kind.
RoleCallSent(c, op) ==
    \/ \E n \in 1..Len(iamLog) : iamLog[n].call = c /\ iamLog[n].op = op
    \/ op = "CreateRole" /\ roleRuns[c].pc = "createRole"
    \/ op = "PutRolePolicy" /\ \E p \in rolePuts : p.call = c

C34_CreatedRoleComplete ==
    \A c \in 1..Len(roleRuns) :
       (roleRuns[c].pc = "returned" /\ iamRole.createdHere) =>
           iamRole.policies = InlinePolicies


\* ---------------------------------------------------------------------
\* The CloudWatch calls of the c-th call of getOrCreateLogGroup that have
\* settled, in order.
LogGroupLog(c) == SelectSeq(cwLog, LAMBDA e : e.call = c)

\* The c-th call has sent CreateLogGroup.
CreateLogGroupSent(c) ==
    \/ logGroupRuns[c].pc = "create"
    \/ \E n \in 1..Len(cwLog) : cwLog[n].call = c /\ cwLog[n].op = "CreateLogGroup"

\* C35  getOrCreateLogGroup creates a log group only when the lookup
\* returns none; after creating, it looks the group up again and fails with
\* an error instead of returning when the created group is still not found,
\* so a successful return always yields a log group record, never null.
C35_LogGroupNeverNull ==
    \A c \in 1..Len(logGroupRuns) :
       LET log == LogGroupLog(c)
           run == logGroupRuns[c]
       IN  /\ CreateLogGroupSent(c) =>
                 /\ log[1].op = "DescribeLogGroups"
                 /\ log[1].throws = NoError
                 /\ log[1].found = Null
           /\ (Len(log) >= 2 /\ log[2].throws = NoError) =>
                 \/ run.pc = "describeAgain"
                 \/ Len(log) = 3 /\ log[3].op = "DescribeLogGroups"
           /\ (Len(log) = 3 /\ log[3].throws = NoError /\ log[3].found = Null) =>
                 /\ run.pc = "rejected"
                 /\ run.error = "CloudWatch log group for DataSync creation failed."
           /\ run.pc = "returned" =>
                 /\ run.result \in LogGroupNameSet
                 /\ run.result = log[Len(log)].found

\* The first call created the group, did not find it afterwards and
\* failed; the second call found the group and returned it.
C35_Witness ==
    /\ Len(logGroupRuns) = 2
    /\ Len(LogGroupLog(1)) = 3
    /\ LogGroupLog(1)[3].throws = NoError
    /\ logGroupRuns[1].pc = "rejected"
    /\ logGroupRuns[2].pc = "returned"
    /\ logGroupRuns[2].result = DefaultLogGroupName


\* ---------------------------------------------------------------------
\* C36  initCopyBucket looks up, and creates when absent, the CloudWatch
\* log group whose name is the value of its logGroup argument, using the
\* source account's configuration; the log group it records and passes to
\* task creation is the one with that name.
\* Stated on what getOrCreateLogGroup receives from initCopyBucket: the name
\* it looks up is the logGroup argument and its client is built from the
\* source's configuration.
C36_LogGroupByNameInSourceAccount ==
    \A n \in 1..Len(copyCalls) :
       copyCalls[n].op = "getOrCreateLogGroup" =>
          LET params == LogGroupParams(copyCalls[n].args) IN
          /\ params.logGroupName = CopyArgs.logGroup
          /\ params.awsConfig = CopyArgs.source.awsConfig

====
